---- MODULE Spec2Model ----
(***************************************************************************)
(* Verification model of the ai-scrapbook retrieval / answer / summarize   *)
(* pipeline.  Each service method is a small state machine whose steps are *)
(* the awaited collaborator calls; the synchronous code between two awaits *)
(* is computed by operators translated from the TypeScript source.         *)
(***************************************************************************)
EXTENDS Integers, Sequences, FiniteSets, TLC

(***************************************************************************)
(* Bounds of the model                                                      *)
(***************************************************************************)
\* request.limit ranges over 1..MaxLimit (the routes validate limit >= 1)
MaxLimit == 3
\* longest result list handed to the hybrid merge when it is checked alone
MaxListLen == 3
\* longest answer text whose citations are extracted
MaxAnswerLen == 6
\* most sources handed to generateAnswer when the extraction is checked alone
MaxSources == 2
\* most citation markers in an answer returned to ask()
MaxCites == 2

\* ids of the rows that content_items can hold
Ids == {"a", "b", "c"}

ContentTypes == {"url", "text", "image"}

\* the type filters a search request is issued with ({} = no filter)
TypeFilters == {{}, {"url"}, {"text", "image"}}

SearchModes == {"keyword", "semantic", "hybrid"}

(***************************************************************************)
(* Sequence helpers                                                         *)
(***************************************************************************)
Min(x, y) == IF x <= y THEN x ELSE y

Range(s) == {s[k] : k \in 1..Len(s)}

\* all sequences over S of length <= n
SeqsUpTo(S, n) == UNION {[1..k -> S] : k \in 0..n}

\* all sequences over S of length <= n without a repeated element
DistinctSeqs(S, n) == {s \in SeqsUpTo(S, n) : \A i, j \in 1..Len(s) : i # j => s[i] # s[j]}

\* every order in which the elements of S can be listed
Orderings(S) == {s \in DistinctSeqs(S, Cardinality(S)) : Range(s) = S}

\* Array.prototype.slice(0, n) for n >= 0
SliceTo(s, n) == SubSeq(s, 1, Min(n, Len(s)))

IdsOf(s) == [k \in 1..Len(s) |-> s[k].id]

(***************************************************************************)
(* Stored rows and search results                                           *)
(***************************************************************************)
\* content_type column of each row
ItemType(id) == CASE id = "a" -> "url" [] id = "b" -> "text" [] OTHER -> "image"

\* rowToContentItem: the ContentItem read from a row
ItemOf(id) == [id |-> id, contentType |-> ItemType(id)]

\* SearchService.itemToSearchResult: no score field
itemToSearchResult(item) == [id |-> item.id, contentType |-> item.contentType, hasScore |-> FALSE, score |-> 0]

\* similarity the index reports for its k-th best match
SimilarityOfRank(k) == 100 - k

\* EmbeddingRepository.searchSimilar on success: ranked {id, similarity}
SimilarItemsOf(ids) == [k \in 1..Len(ids) |-> [id |-> ids[k], similarity |-> SimilarityOfRank(k)]]

\* new Map(items.map(item => [item.id, item])) followed by get(id):
\* the last row with that id wins
HasItem(items, id) == \E k \in 1..Len(items) : items[k].id = id

ItemById(items, id) == items[CHOOSE k \in 1..Len(items) : items[k].id = id /\ \A j \in (k+1)..Len(items) : items[j].id # id]

\* SearchService.keywordSearch: items.map(itemToSearchResult)
KeywordResults(items) == [k \in 1..Len(items) |-> itemToSearchResult(items[k])]

\* a slip: the results follow the order of the fetched rows
RECURSIVE SemanticLoopByRows(_, _, _)
SemanticLoopByRows(results, sims, items) ==
    IF items = <<>> THEN results
    ELSE LET item == Head(items)
             hit == {k \in 1..Len(sims) : sims[k].id = item.id}
         IN SemanticLoopByRows(
              IF hit = {} THEN results
              ELSE Append(results, [itemToSearchResult(item) EXCEPT !.hasScore = TRUE,
                                      !.score = sims[CHOOSE k \in hit : TRUE].similarity]),
              sims, Tail(items))

\* SearchService.semanticSearch, the loop `for (const sim of similarItems)`
RECURSIVE SemanticLoop(_, _, _)
SemanticLoop(results, sims, items) ==
    IF sims = <<>> THEN results
    ELSE LET sim == Head(sims)
         IN SemanticLoop(
              IF HasItem(items, sim.id)
              THEN Append(results, [itemToSearchResult(ItemById(items, sim.id)) EXCEPT
                                      !.hasScore = TRUE, !.score = sim.similarity])
              ELSE results,
              Tail(sims), items)

\* a slip: keyword results are appended without looking at `seen`
MergeNoSeen(merged, list) == merged \o list

\* the two loops of hybridSearch: push every result whose id is not in `seen`
RECURSIVE MergeInto(_, _)
MergeInto(merged, list) ==
    IF list = <<>> THEN merged
    ELSE LET r == Head(list)
         IN MergeInto(IF r.id \in Range(IdsOf(merged)) THEN merged ELSE Append(merged, r), Tail(list))

\* a slip: keyword results are merged first
HybridMergeKeywordFirst(semanticResults, keywordResults, limit) ==
    SliceTo(MergeInto(MergeInto(<<>>, keywordResults), semanticResults), limit)

\* SearchService.hybridSearch after the join: semantic first, then keyword, slice(0, limit)
HybridMerge(semanticResults, keywordResults, limit) ==
    SliceTo(MergeInto(MergeInto(<<>>, semanticResults), keywordResults), limit)

\* a slip: the type filter is never applied
FilterSkipped(results, types) == results

\* SearchService.search: results.filter(r => types.includes(r.contentType)) when types is non-empty
FilterByTypes(results, types) ==
    IF types # {} THEN SelectSeq(results, LAMBDA r : r.contentType \in types) ELSE results

(***************************************************************************)
(* State                                                                    *)
(***************************************************************************)
VARIABLES
    table,          \* ids of the rows currently in content_items
    \* --- SearchService.search ---
    sPc,            \* "idle" | "running" | "done" | "failed"
    sMode,          \* request.mode
    sLimit,         \* request.limit
    sTypes,         \* request.types
    kwPc,           \* keyword branch: "off" | "pending" | "done" | "failed"
    kwResults,      \* what keywordSearch resolved with
    semPc,          \* semantic branch: "off" | "embed" | "similar" | "fetch" | "done" | "failed"
    semErr,         \* the step the semantic branch failed at ("none" if it did not)
    similarItems,   \* what searchSimilar resolved with
    semRows,        \* what findByIds resolved with
    semResults,     \* what semanticSearch resolved with
    fetchCalls,     \* findByIds calls issued by semanticSearch
    sMerged,        \* what keywordSearch / semanticSearch / hybridSearch returned to search
    sResults,       \* SearchResponse.results
    sTotal,         \* SearchResponse.total
    sFirst,         \* the branch of the search that settled first ("none": no branch yet)
    \* --- hybrid merge applied to arbitrary lists ---
    mPc,            \* "input" | "merged"
    mSemantic,
    mKeyword,
    mLimit,
    mOut,
    \* --- generateAnswer: citation extraction ---
    cPc,            \* "input" | "done"
    cSources,       \* options.sources
    cAnswer,        \* the text the model returned, a sequence of characters
    cUsed,          \* sourcesUsed
    \* --- AskService.ask ---
    aPc,            \* "idle" | "fetch" | "generate" | "done" | "failed"
    aSearch,        \* searchResults.results
    aTotal,         \* searchResults.total
    aSources,       \* sourceContexts, the list handed to generateAnswer
    aAnswer,        \* result.answer
    aUsed,          \* result.sourcesUsed
    aResp,          \* the AskResponse returned
    aFetchCalls,    \* contentRepo.findByIds calls issued by ask
    llmCalls,       \* generateAnswer (language model) calls issued by ask
    \* --- SummarizeService.summarize ---
    uPc,            \* position inside summarize(), "idle" before the call
    uUrl,           \* the class of the url argument
    twConfigured,   \* twitterService.isConfigured()
    rdConfigured,   \* redditService.isConfigured()
    uContentType,   \* contentType of the result ("none" until known)
    uAssetKind,     \* asset.kind of the downloaded asset ("none" if there is none)
    uAssetErr,      \* the error caught by trySummarizeAssetUrl ("none" if none)
    uErr,           \* what summarize() threw ("none" if nothing)
    uPlatformThrew, \* a getTweet / getPost call of this request threw
    nTweet,         \* TwitterService.getTweet calls
    nPost,          \* RedditService.getPost calls
    nComments,      \* RedditService.getComments calls
    nLink,          \* fetchSummarizeCoreContent calls
    nClassify,      \* classifyUrlAsAsset calls
    nDownload,      \* loadAssetFromUrl / downloadGoogleDocAsDocx calls
    nLlm,           \* aiProvider.generateAnswer calls issued by summarize
    \* --- classifyUrlAsAsset ---
    kPc,            \* "idle" | "head" | "range" | "done"
    kPath,          \* the pathname of the url
    kHead,          \* how the HEAD probe ended ("none" if it was not issued)
    kRange,         \* how the ranged GET probe ended ("none" if it was not issued)
    kCalls,         \* the network calls issued, in order
    kResult,        \* kind of the UrlKind returned ("none" until then)
    kRaised,        \* classifyUrlAsAsset rejected
    \* --- loadAssetFromUrl / loadAssetFromPath ---
    lPc,            \* "idle" | "done"
    lFrom,          \* "url" | "path"
    lIn,            \* what the remote side or the file system answered
    lMax,           \* maxBytes
    lOut,           \* the AssetInput returned, or the error thrown
    \* --- ContentService.capture, EnrichmentService.enrichAsync ---
    cpPc,           \* capture: "idle" | "returned" | "failed"
    cpResp,         \* the CaptureResponse returned
    ePc,            \* enrichAsync: "off", the step awaited, "resolved" or "rejected"
    eStatus,        \* enrichment_status of the item's row ("none": no row)
    eWrites,        \* the enrichmentStatus values this run wrote, in order
    eFailedAt,      \* the step of enrichAsync that threw ("none" if none did)
    eText,          \* the text the model returned to enrich
    eMeta,          \* title, description and tags of the item's row
    eStored,        \* the embedding of the item is stored
    bgPc,           \* the detached summarization of capture: step awaited, "off" or "end"
    eBlank,         \* rawContent.trim() is empty
    eSummary,       \* summary of the item's row: "none" | "summary" | "fallback"
    \* --- AskService.truncateContent ---
    tPc,            \* "input" | "done"
    tContent,       \* rawContent of the item, a sequence of characters
    tOut,           \* the excerpt returned
    \* --- extractDocumentText ---
    dPc,            \* "input" | "done"
    dIn,            \* the asset and what its parser yields
    dOut            \* the ExtractedDocumentText returned, or the error thrown

searchVars == <<sPc, sMode, sLimit, sTypes, kwPc, kwResults, semPc, semErr, similarItems,
                semRows, semResults, fetchCalls, sMerged, sResults, sTotal, sFirst>>

mergeVars == <<mPc, mSemantic, mKeyword, mLimit, mOut>>

citeVars == <<cPc, cSources, cAnswer, cUsed>>

askVars == <<aPc, aSearch, aTotal, aSources, aAnswer, aUsed, aResp, aFetchCalls, llmCalls>>

sumVars == <<uPc, uUrl, twConfigured, rdConfigured, uContentType, uAssetKind, uAssetErr, uErr,
             uPlatformThrew, nTweet, nPost, nComments, nLink, nClassify, nDownload, nLlm>>

classVars == <<kPc, kPath, kHead, kRange, kCalls, kResult, kRaised>>

loadVars == <<lPc, lFrom, lIn, lMax, lOut>>

enrichVars == <<cpPc, cpResp, ePc, eStatus, eWrites, eFailedAt, eText, eMeta, eStored, bgPc,
                eBlank, eSummary>>

truncVars == <<tPc, tContent, tOut>>

docVars == <<dPc, dIn, dOut>>

vars == <<table, searchVars, mergeVars, citeVars, askVars, sumVars, classVars, loadVars,
          enrichVars, truncVars, docVars>>

\* what a step of search() leaves alone
SearchFrame == UNCHANGED <<mergeVars, citeVars, askVars, sumVars, classVars, loadVars, enrichVars, truncVars, docVars>>

\* what the stand-alone merge leaves alone
MergeFrame == UNCHANGED <<table, searchVars, citeVars, askVars, sumVars, classVars, loadVars, enrichVars, truncVars, docVars>>

\* what the citation extraction leaves alone
CiteFrame == UNCHANGED <<table, searchVars, mergeVars, askVars, sumVars, classVars, loadVars, enrichVars, truncVars, docVars>>

\* what a step of ask() leaves alone
AskFrame == UNCHANGED <<searchVars, mergeVars, citeVars, sumVars, classVars, loadVars, enrichVars, truncVars, docVars>>

\* what a step of summarize() leaves alone
SumFrame == UNCHANGED <<table, searchVars, mergeVars, citeVars, askVars, classVars, loadVars, enrichVars, truncVars, docVars>>

\* what a step of classifyUrlAsAsset leaves alone
ClassFrame == UNCHANGED <<table, searchVars, mergeVars, citeVars, askVars, sumVars, loadVars, enrichVars, truncVars, docVars>>

\* what loadAssetFromUrl / loadAssetFromPath leave alone
LoadFrame == UNCHANGED <<table, searchVars, mergeVars, citeVars, askVars, sumVars, classVars,
                        enrichVars, truncVars, docVars>>

InitSearch ==
    /\ sPc = "idle" /\ sMode = "hybrid" /\ sLimit = 1 /\ sTypes = {}
    /\ kwPc = "off" /\ kwResults = <<>>
    /\ semPc = "off" /\ semErr = "none" /\ similarItems = <<>> /\ semRows = <<>> /\ semResults = <<>>
    /\ fetchCalls = 0
    /\ sMerged = <<>> /\ sResults = <<>> /\ sTotal = 0
    /\ sFirst = "none"

InitMerge ==
    /\ mPc = "input" /\ mSemantic = <<>> /\ mKeyword = <<>> /\ mLimit = 1 /\ mOut = <<>>

InitCite ==
    /\ cPc = "input" /\ cSources = <<>> /\ cAnswer = <<>> /\ cUsed = <<>>

NoResponse == [answer |-> <<>>, sources |-> <<>>, totalSourcesSearched |-> 0]

InitAsk ==
    /\ aPc = "idle" /\ aSearch = <<>> /\ aTotal = 0 /\ aSources = <<>>
    /\ aAnswer = <<>> /\ aUsed = <<>> /\ aResp = NoResponse
    /\ aFetchCalls = 0 /\ llmCalls = 0

\* no summarize() call has started
InitSumCall ==
    /\ uPc = "idle" /\ uUrl = "other" /\ uContentType = "none" /\ uAssetKind = "none"
    /\ uAssetErr = "none"
    /\ uErr = "none" /\ uPlatformThrew = FALSE
    /\ nTweet = 0 /\ nPost = 0 /\ nComments = 0 /\ nLink = 0
    /\ nClassify = 0 /\ nDownload = 0 /\ nLlm = 0

InitSum == InitSumCall /\ twConfigured = FALSE /\ rdConfigured = FALSE

InitClassify ==
    /\ kPc = "idle" /\ kPath = "none"
    /\ kHead = [issued |-> FALSE, threw |-> FALSE, ok |-> FALSE,
                contentType |-> [kind |-> "none", type |-> <<>>, upper |-> FALSE,
                                 params |-> FALSE],
                disposition |-> "none", html |-> FALSE, asset |-> FALSE]
    /\ kRange = kHead
    /\ kCalls = <<>> /\ kResult = "none" /\ kRaised = FALSE

InitLoad ==
    /\ lPc = "idle" /\ lFrom = "url" /\ lIn = "none" /\ lMax = 1 /\ lOut = "none"

\* the collaborators of the search, ask and summarize flows at rest
InitAssets == InitClassify /\ InitLoad

\* what a step of capture or of enrichAsync leaves alone
EnrichFrame ==
    UNCHANGED <<table, searchVars, mergeVars, citeVars, askVars, sumVars, classVars, loadVars, truncVars, docVars>>

\* a model text that holds no JSON object
NoText ==
    [hasObject |-> FALSE, valid |-> FALSE, title |-> "absent", description |-> "absent",
     tags |-> "absent"]

\* the columns enrichment fills, as create leaves them
NoMeta == [title |-> "none", description |-> "none", tags |-> "none"]

InitEnrich ==
    /\ cpPc = "idle" /\ cpResp = [status |-> "none", enrichment |-> "none"]
    /\ ePc = "off" /\ eStatus = "none" /\ eWrites = <<>> /\ eFailedAt = "none"
    /\ eText = NoText /\ eMeta = NoMeta /\ eStored = FALSE
    /\ bgPc = "off" /\ eBlank = FALSE /\ eSummary = "none"

\* an absent asset: nothing was handed to extractDocumentText
NoDocument ==
    [kind |-> "document", mediaType |-> "text/plain", throws |-> FALSE,
     parsed |-> [kind |-> "string", value |-> <<>>]]

NoExtract == [status |-> "none", error |-> "none", text |-> <<>>, truncated |-> FALSE]

InitTrunc == tPc = "input" /\ tContent = <<>> /\ tOut = <<>>

InitDoc == dPc = "input" /\ dIn = NoDocument /\ dOut = NoExtract

\* the text helpers at rest
InitTexts == InitTrunc /\ InitDoc

\* what truncateContent leaves alone
TruncFrame ==
    UNCHANGED <<table, searchVars, mergeVars, citeVars, askVars, sumVars, classVars, loadVars,
                enrichVars, docVars>>

\* what extractDocumentText leaves alone
DocFrame ==
    UNCHANGED <<table, searchVars, mergeVars, citeVars, askVars, sumVars, classVars, loadVars,
                enrichVars, truncVars>>

(***************************************************************************)
(* SearchService.search                                                     *)
(***************************************************************************)
\* the branch that settles now is the first one unless the other settled before
FirstSettled(branch) == IF sFirst = "none" THEN branch ELSE sFirst

\* another request deletes a row while this one is in flight
DeleteItem(id) ==
    /\ sPc \in {"idle", "running"}
    /\ id \in table
    /\ table' = table \ {id}
    /\ UNCHANGED searchVars
    /\ SearchFrame

\* search(): mode and limit are read, the branch(es) of the mode are started
SearchBegin(mode, limit, types) ==
    /\ sPc = "idle"
    /\ sPc' = "running" /\ sMode' = mode /\ sLimit' = limit /\ sTypes' = types
    /\ kwPc' = IF mode \in {"keyword", "hybrid"} THEN "pending" ELSE "off"
    /\ semPc' = IF mode \in {"semantic", "hybrid"} THEN "embed" ELSE "off"
    /\ UNCHANGED <<table, kwResults, semErr, similarItems, semRows, semResults, fetchCalls,
                   sMerged, sResults, sTotal>>
    /\ UNCHANGED sFirst
    /\ SearchFrame

\* contentRepo.keywordSearch resolves: at most `limit` matching rows of the table
KeywordSearchOk(ids) ==
    /\ kwPc = "pending"
    /\ ids \in DistinctSeqs(table, sLimit)
    /\ kwResults' = KeywordResults([k \in 1..Len(ids) |-> ItemOf(ids[k])])
    /\ kwPc' = "done"
    /\ UNCHANGED <<table, sPc, sMode, sLimit, sTypes, semPc, semErr, similarItems, semRows,
                   semResults, fetchCalls, sMerged, sResults, sTotal>>
    /\ sFirst' = FirstSettled("keyword")
    /\ SearchFrame

\* contentRepo.keywordSearch throws
KeywordSearchFail ==
    /\ kwPc = "pending"
    /\ kwPc' = "failed"
    /\ UNCHANGED <<table, sPc, sMode, sLimit, sTypes, kwResults, semPc, semErr, similarItems,
                   semRows, semResults, fetchCalls, sMerged, sResults, sTotal>>
    /\ sFirst' = FirstSettled("keyword")
    /\ SearchFrame

\* generateEmbedding(query) resolves
EmbedOk ==
    /\ semPc = "embed"
    /\ semPc' = "similar"
    /\ UNCHANGED <<table, sPc, sMode, sLimit, sTypes, kwPc, kwResults, semErr, similarItems,
                   semRows, semResults, fetchCalls, sMerged, sResults, sTotal>>
    /\ UNCHANGED sFirst
    /\ SearchFrame

\* a collaborator of the semantic branch throws at its current step
SemanticFail ==
    /\ semPc \in {"embed", "similar", "fetch"}
    /\ semErr' = semPc
    /\ semPc' = "failed"
    /\ fetchCalls' = IF semPc = "fetch" THEN fetchCalls + 1 ELSE fetchCalls
    /\ UNCHANGED <<table, sPc, sMode, sLimit, sTypes, kwPc, kwResults, similarItems, semRows,
                   semResults, sMerged, sResults, sTotal>>
    /\ sFirst' = FirstSettled("semantic")
    /\ SearchFrame

\* a slip: the batch fetch is issued also for an empty candidate list
NeverSkipFetch(sims) == FALSE

\* semanticSearch: if (similarItems.length === 0) return []
SkipFetch(sims) == Len(sims) = 0

\* embeddingRepo.searchSimilar resolves with at most `limit` ranked candidates;
\* with no candidate semanticSearch returns [] at once
SearchSimilarOk(ids) ==
    /\ semPc = "similar"
    /\ ids \in DistinctSeqs(table, sLimit)
    /\ similarItems' = SimilarItemsOf(ids)
    /\ semPc' = IF SkipFetch(similarItems') THEN "done" ELSE "fetch"
    /\ UNCHANGED <<table, sPc, sMode, sLimit, sTypes, kwPc, kwResults, semErr, semRows,
                   semResults, fetchCalls, sMerged, sResults, sTotal>>
    /\ sFirst' = IF semPc' = "done" THEN FirstSettled("semantic") ELSE sFirst
    /\ SearchFrame

\* contentRepo.findByIds resolves with the rows still stored, in any order;
\* semanticSearch builds its results from them
FindByIdsOk(order) ==
    /\ semPc = "fetch"
    /\ order \in Orderings(Range(IdsOf(similarItems)) \cap table)
    /\ fetchCalls' = fetchCalls + 1
    /\ semRows' = [k \in 1..Len(order) |-> ItemOf(order[k])]
    /\ semResults' = SemanticLoop(<<>>, similarItems, semRows')
    /\ semPc' = "done"
    /\ UNCHANGED <<table, sPc, sMode, sLimit, sTypes, kwPc, kwResults, semErr, similarItems,
                   sMerged, sResults, sTotal>>
    /\ sFirst' = FirstSettled("semantic")
    /\ SearchFrame

\* a slip: no .catch on the semantic promise
HybridJoinNoCatch(kw, sem) ==
    IF kw = "failed" \/ sem = "failed" THEN "rejected"
    ELSE IF kw = "done" /\ sem = "done" THEN "resolved"
    ELSE "pending"

\* a slip: .catch(() => []) on the keyword promise too
HybridJoinAbsorbBoth(kw, sem) ==
    IF kw \in {"done", "failed"} /\ sem \in {"done", "failed"} THEN "resolved" ELSE "pending"

\* a slip: the join resolves as soon as one branch has a value (Promise.race)
HybridJoinRace(kw, sem) ==
    IF kw = "failed" THEN "rejected"
    ELSE IF kw = "done" \/ sem \in {"done", "failed"} THEN "resolved"
    ELSE "pending"

\* Promise.all([keywordSearch(..), semanticSearch(..).catch(() => [])]):
\* rejected as soon as the keyword promise rejects, resolved once both have settled
HybridJoin(kw, sem) ==
    IF kw = "failed" THEN "rejected"
    ELSE IF kw = "done" /\ sem \in {"done", "failed"} THEN "resolved"
    ELSE "pending"

\* the value the semantic promise contributes to the join: [] after a failure
SemanticOrEmpty == IF semPc = "failed" THEN <<>> ELSE semResults

\* how the awaited call of search()'s switch has settled
AwaitedCall ==
    CASE sMode = "keyword" -> (IF kwPc = "done" THEN "resolved" ELSE IF kwPc = "failed" THEN "rejected" ELSE "pending")
      [] sMode = "semantic" -> (IF semPc = "done" THEN "resolved" ELSE IF semPc = "failed" THEN "rejected" ELSE "pending")
      [] OTHER -> HybridJoin(kwPc, semPc)

\* the awaited call resolved: merge (hybrid), filter by type, count, return
SearchReturn ==
    /\ sPc = "running"
    /\ AwaitedCall = "resolved"
    /\ sMerged' = CASE sMode = "keyword" -> kwResults
                    [] sMode = "semantic" -> semResults
                    [] OTHER -> HybridMerge(SemanticOrEmpty, kwResults, sLimit)
    /\ sResults' = FilterByTypes(sMerged', sTypes)
    /\ sTotal' = Len(sResults')
    /\ sPc' = "done"
    /\ UNCHANGED <<table, sMode, sLimit, sTypes, kwPc, kwResults, semPc, semErr, similarItems,
                   semRows, semResults, fetchCalls>>
    /\ UNCHANGED sFirst
    /\ SearchFrame

\* the awaited call rejected: search() throws
SearchThrow ==
    /\ sPc = "running"
    /\ AwaitedCall = "rejected"
    /\ sPc' = "failed"
    /\ UNCHANGED <<table, sMode, sLimit, sTypes, kwPc, kwResults, semPc, semErr, similarItems,
                   semRows, semResults, fetchCalls, sMerged, sResults, sTotal>>
    /\ UNCHANGED sFirst
    /\ SearchFrame

NextSearch ==
    \/ \E id \in Ids : DeleteItem(id)
    \/ \E mode \in SearchModes, limit \in 1..MaxLimit, types \in TypeFilters : SearchBegin(mode, limit, types)
    \/ \E ids \in DistinctSeqs(Ids, MaxLimit) : KeywordSearchOk(ids)
    \/ KeywordSearchFail
    \/ EmbedOk
    \/ SemanticFail
    \/ \E ids \in DistinctSeqs(Ids, MaxLimit) : SearchSimilarOk(ids)
    \/ \E order \in DistinctSeqs(Ids, MaxLimit) : FindByIdsOk(order)
    \/ SearchReturn
    \/ SearchThrow

InitS == table = Ids /\ InitSearch /\ InitMerge /\ InitCite /\ InitAsk /\ InitSum /\ InitAssets /\ InitEnrich /\ InitTexts

SpecSearch == InitS /\ [][NextSearch]_vars

(***************************************************************************)
(* The hybrid merge on arbitrary lists: repeated ids, overlap, any length   *)
(***************************************************************************)
\* a result list as a mock collaborator may hand it over
ResultLists == {KeywordResults([k \in 1..Len(ids) |-> ItemOf(ids[k])]) : ids \in SeqsUpTo(Ids, MaxListLen)}

MergeApply ==
    /\ mPc = "input"
    /\ mOut' = HybridMerge(mSemantic, mKeyword, mLimit)
    /\ mPc' = "merged"
    /\ UNCHANGED <<mSemantic, mKeyword, mLimit>>
    /\ MergeFrame

NextMerge == MergeApply

InitM ==
    /\ table = Ids /\ InitSearch
    /\ mPc = "input" /\ mOut = <<>>
    /\ mSemantic \in ResultLists /\ mKeyword \in ResultLists /\ mLimit \in 1..MaxLimit
    /\ InitCite /\ InitAsk /\ InitSum /\ InitAssets /\ InitEnrich /\ InitTexts

SpecMerge == InitM /\ [][NextMerge]_vars

(***************************************************************************)
(* Citation extraction of generateAnswer (both providers, same code)        *)
(***************************************************************************)
\* the characters \d matches
DigitChars == {"0", "1", "2", "3", "4", "5", "6", "7", "8", "9"}

DigitValue(c) ==
    CASE c = "0" -> 0 [] c = "1" -> 1 [] c = "2" -> 2 [] c = "3" -> 3 [] c = "4" -> 4
      [] c = "5" -> 5 [] c = "6" -> 6 [] c = "7" -> 7 [] c = "8" -> 8 [] OTHER -> 9

\* characters the answer texts are drawn from when the extraction is checked
\* alone: brackets, three digits, any other character
AnswerChars == {"[", "]", "x", "0", "1", "2"}

\* parseInt(digits, 10) of a non-empty run of decimal digits
RECURSIVE ParseInt(_, _)
ParseInt(digits, acc) ==
    IF digits = <<>> THEN acc ELSE ParseInt(Tail(digits), 10 * acc + DigitValue(Head(digits)))

\* end of the \d+ run: the first position from i on that holds no digit
RECURSIVE DigitsEnd(_, _)
DigitsEnd(answer, i) ==
    IF i <= Len(answer) /\ answer[i] \in DigitChars THEN DigitsEnd(answer, i + 1) ELSE i

\* a slip: the cited numbers are collected in an array, not a Set
SetAddAlways(cited, n) == Append(cited, n)

\* Set.prototype.add on a set kept in insertion order
SetAdd(cited, n) == IF n \in Range(cited) THEN cited ELSE Append(cited, n)

\* while ((match = /\[(\d+)\]/g.exec(answer)) !== null) citedNumbers.add(parseInt(match[1], 10)):
\* the leftmost match from position i on, then on from the end of that match
RECURSIVE ScanCitations(_, _, _)
ScanCitations(answer, i, cited) ==
    IF i > Len(answer) THEN cited
    ELSE IF answer[i] = "["
         THEN LET j == DigitsEnd(answer, i + 1)
              IN IF j > i + 1 /\ j <= Len(answer) /\ answer[j] = "]"
                 THEN ScanCitations(answer, j + 1, SetAdd(cited, ParseInt(SubSeq(answer, i + 1, j - 1), 0)))
                 ELSE ScanCitations(answer, i + 1, cited)
         ELSE ScanCitations(answer, i + 1, cited)

\* Array.from(citedNumbers).filter(num => num >= 1 && num <= sources.length)
InRangeCitations(cited, sources) == SelectSeq(cited, LAMBDA n : n >= 1 /\ n <= Len(sources))

\* generateAnswer, from the answer text to sourcesUsed
ExtractSourcesUsed(answer, sources) ==
    LET nums == InRangeCitations(ScanCitations(answer, 1, <<>>), sources)
    IN [k \in 1..Len(nums) |-> sources[nums[k]].id]

\* the source list [s1, .., sn] handed to generateAnswer
CiteSources(n) == [k \in 1..n |-> [id |-> <<"s", k>>]]

CiteStart ==
    /\ cPc = "input"
    /\ cUsed' = ExtractSourcesUsed(cAnswer, cSources)
    /\ cPc' = "done"
    /\ UNCHANGED <<cAnswer, cSources>>
    /\ CiteFrame

NextCite == CiteStart

InitC ==
    /\ table = Ids /\ InitSearch /\ InitMerge /\ InitAsk /\ InitSum /\ InitAssets /\ InitEnrich /\ InitTexts
    /\ cPc = "input" /\ cUsed = <<>>
    /\ cAnswer \in SeqsUpTo(AnswerChars, MaxAnswerLen)
    /\ \E n \in 0..MaxSources : cSources = CiteSources(n)

SpecCite == InitC /\ [][NextCite]_vars

(***************************************************************************)
(* AskService.ask                                                           *)
(***************************************************************************)
\* what searchService.search can resolve with, for a request without type filter:
\* the branch results are built from any collaborator answers over the table
PossibleSearchResults(mode, limit, tbl) ==
    LET kws == {KeywordResults([k \in 1..Len(ids) |-> ItemOf(ids[k])]) : ids \in DistinctSeqs(tbl, limit)}
        sems == UNION {{SemanticLoop(<<>>, SimilarItemsOf(ids), [k \in 1..Len(order) |-> ItemOf(order[k])]) :
                          order \in UNION {Orderings(kept) : kept \in SUBSET Range(ids)}} :
                       ids \in DistinctSeqs(tbl, limit)}
    IN CASE mode = "keyword" -> kws
         [] mode = "semantic" -> sems
         [] OTHER -> {HybridMerge(sem, kw, limit) : sem \in sems, kw \in kws}

\* the canned answer of the early return
CouldNotFind == <<"I couldn't find any relevant content in your library to answer this question.">>

\* a slip: no early return
NeverShortCircuit(results) == FALSE

\* if (searchResults.results.length === 0) return {canned answer}
AskShortCircuit(results) == Len(results) = 0

\* a slip: the source contexts follow the order of the fetched rows
BuildSourceContextsByRows(results, rows) ==
    LET found == SelectSeq(rows, LAMBDA row : \E k \in 1..Len(results) : results[k].id = row.id)
    IN [k \in 1..Len(found) |-> [id |-> found[k].id, contentType |-> found[k].contentType]]

\* sourceContexts: the search results whose row was fetched, in search order
BuildSourceContexts(results, rows) ==
    LET found == SelectSeq(results, LAMBDA r : HasItem(rows, r.id))
    IN [k \in 1..Len(found) |-> [id |-> ItemById(rows, found[k].id).id,
                                  contentType |-> ItemById(rows, found[k].id).contentType]]

\* citedSourcesMap.get(id): forEach sets index + 1 for every cited source, the last one wins
CitedSourcesMap(sources, used, id) ==
    CHOOSE n \in 1..Len(sources) :
        /\ sources[n].id = id /\ id \in Range(used)
        /\ \A j \in (n + 1)..Len(sources) : sources[j].id # id

\* Array.prototype.sort((a, b) => a.citationNumber - b.citationNumber), stable
RECURSIVE InsertByCitation(_, _)
InsertByCitation(sorted, s) ==
    IF sorted = <<>> THEN <<s>>
    ELSE IF sorted[Len(sorted)].citationNumber <= s.citationNumber THEN Append(sorted, s)
    ELSE Append(InsertByCitation(SubSeq(sorted, 1, Len(sorted) - 1), s), sorted[Len(sorted)])

RECURSIVE SortByCitation(_, _)
SortByCitation(sorted, rest) ==
    IF rest = <<>> THEN sorted ELSE SortByCitation(InsertByCitation(sorted, Head(rest)), Tail(rest))

\* a slip: the citation number is the rank in the cited-sources array
AskSourcesByRank(sources, used) ==
    LET known == SelectSeq(used, LAMBDA id : HasItem(sources, id))
    IN [k \in 1..Len(known) |-> [id |-> known[k], citationNumber |-> k]]

\* step 4 of ask: the cited sources with their citation numbers, sorted
AskSources(sources, used) ==
    LET known == SelectSeq(used, LAMBDA id : HasItem(sources, id))
        mapped == [k \in 1..Len(known) |-> [id |-> known[k],
                                             citationNumber |-> CitedSourcesMap(sources, used, known[k])]]
    IN SortByCitation(<<>>, mapped)

\* the answer texts the language model returns to ask(): up to MaxCites markers [d]
CiteMarker(d) == <<"[", d, "]">>

RECURSIVE MarkerTexts(_)
MarkerTexts(n) ==
    IF n = 0 THEN {<<>>}
    ELSE MarkerTexts(n - 1) \cup {t \o CiteMarker(d) : t \in MarkerTexts(n - 1), d \in {"0", "1", "2", "3", "4"}}

AskAnswers == MarkerTexts(MaxCites)

\* ask(): the search resolves; with no result the canned response is returned at once
AskSearchOk(mode, limit) ==
    /\ aPc = "idle"
    /\ \E results \in PossibleSearchResults(mode, limit, table) :
         /\ aSearch' = results
         /\ aTotal' = Len(results)
         /\ IF AskShortCircuit(results)
            THEN /\ aResp' = [answer |-> CouldNotFind, sources |-> <<>>, totalSourcesSearched |-> 0]
                 /\ aPc' = "done"
            ELSE /\ aPc' = "fetch"
                 /\ UNCHANGED aResp
    /\ UNCHANGED <<table, aSources, aAnswer, aUsed, aFetchCalls, llmCalls>>
    /\ AskFrame

\* searchService.search throws
AskSearchFail ==
    /\ aPc = "idle"
    /\ aPc' = "failed"
    /\ UNCHANGED <<table, aSearch, aTotal, aSources, aAnswer, aUsed, aResp, aFetchCalls, llmCalls>>
    /\ AskFrame

\* a row is deleted between the search and the batch fetch
AskDeleteItem(id) ==
    /\ aPc = "fetch"
    /\ id \in table
    /\ table' = table \ {id}
    /\ UNCHANGED askVars
    /\ AskFrame

\* contentRepo.findByIds resolves with the rows still stored, in any order
AskFetchOk(order) ==
    /\ aPc = "fetch"
    /\ order \in Orderings(Range(IdsOf(aSearch)) \cap table)
    /\ aFetchCalls' = aFetchCalls + 1
    /\ aSources' = BuildSourceContexts(aSearch, [k \in 1..Len(order) |-> ItemOf(order[k])])
    /\ aPc' = "generate"
    /\ UNCHANGED <<table, aSearch, aTotal, aAnswer, aUsed, aResp, llmCalls>>
    /\ AskFrame

\* contentRepo.findByIds throws
AskFetchFail ==
    /\ aPc = "fetch"
    /\ aFetchCalls' = aFetchCalls + 1
    /\ aPc' = "failed"
    /\ UNCHANGED <<table, aSearch, aTotal, aSources, aAnswer, aUsed, aResp, llmCalls>>
    /\ AskFrame

\* generateAnswer resolves (the provider calls the model whatever the number of
\* sources, then extracts the citations); ask builds and returns the response
AskGenerateOk(answer) ==
    /\ aPc = "generate"
    /\ llmCalls' = llmCalls + 1
    /\ aAnswer' = answer
    /\ aUsed' = ExtractSourcesUsed(answer, aSources)
    /\ aResp' = [answer |-> answer, sources |-> AskSources(aSources, aUsed'), totalSourcesSearched |-> aTotal]
    /\ aPc' = "done"
    /\ UNCHANGED <<table, aSearch, aTotal, aSources, aFetchCalls>>
    /\ AskFrame

\* the language model call throws
AskGenerateFail ==
    /\ aPc = "generate"
    /\ llmCalls' = llmCalls + 1
    /\ aPc' = "failed"
    /\ UNCHANGED <<table, aSearch, aTotal, aSources, aAnswer, aUsed, aResp, aFetchCalls>>
    /\ AskFrame

NextAsk ==
    \/ \E mode \in SearchModes, limit \in 1..MaxLimit : AskSearchOk(mode, limit)
    \/ AskSearchFail
    \/ \E id \in Ids : AskDeleteItem(id)
    \/ \E order \in DistinctSeqs(Ids, MaxLimit) : AskFetchOk(order)
    \/ AskFetchFail
    \/ \E answer \in AskAnswers : AskGenerateOk(answer)
    \/ AskGenerateFail

InitA == table \in SUBSET Ids /\ InitSearch /\ InitMerge /\ InitCite /\ InitAsk /\ InitSum /\ InitAssets /\ InitEnrich /\ InitTexts

SpecAsk == InitA /\ [][NextAsk]_vars

(***************************************************************************)
(* SummarizeService.summarize                                               *)
(***************************************************************************)
\* the url arguments told apart by summarize(): unparsable, parsable with another
\* scheme than http(s), a Google Docs document, a tweet, a Reddit post, any other page
UrlClasses == {"invalid", "nonHttp", "googleDoc", "twitter", "reddit", "other"}

isGoogleDocUrl(url) == url = "googleDoc"

\* new URL(url) succeeds
ParsesAsUrl(url) == url # "invalid"

IsHttpUrl(url) == url \notin {"invalid", "nonHttp"}

\* a slip: the social hosts are not recognised
DetectArticleOnly(url) == IF url = "invalid" THEN "unknown" ELSE "article"

detectContentType(url) ==
    CASE url = "twitter" -> "twitter"
      [] url = "reddit" -> "reddit"
      [] url = "invalid" -> "unknown"
      [] OTHER -> "article"

\* the failures of the direct-asset path: of loadAssetFromUrl (the fetch itself, a
\* non-OK status, the size cap, an HTML body, an archive type, an unsupported type),
\* of extractDocumentText (it threw, or found no text) and of the language model
LoadErrors == {"network", "status", "tooLarge", "website", "archive", "unsupported"}

\* whether the lower-cased message of the error can contain "html": the website
\* message always does, the size and no-text messages are fixed texts with numbers
\* only, every other message embeds text of the remote side (status text, filename,
\* media type, the message of a foreign error)
MessageMentionsHtml(err) ==
    CASE err = "website" -> {TRUE}
      [] err \in {"tooLarge", "noText"} -> {FALSE}
      [] OTHER -> BOOLEAN

\* a slip: no error is taken for the website condition
NeverHtmlError(html) == FALSE

isHtmlAssetError(html) == html

\* summarize() up to its first await
SummarizeBegin(url) ==
    /\ uPc = "idle"
    /\ uUrl' = url
    /\ IF isGoogleDocUrl(url)
         THEN uPc' = "googleDoc" /\ UNCHANGED <<uErr, uContentType>>
         ELSE IF ~ParsesAsUrl(url)
         THEN uPc' = "failed" /\ uErr' = "invalidUrl" /\ UNCHANGED uContentType
         ELSE IF ~IsHttpUrl(url)
         THEN uPc' = "failed" /\ uErr' = "protocol" /\ UNCHANGED uContentType
         ELSE /\ uContentType' = detectContentType(url)
              /\ uErr' = uErr
              /\ uPc' = CASE detectContentType(url) = "article" -> "classify"
                          [] detectContentType(url) = "twitter" ->
                                IF twConfigured THEN "getTweet" ELSE "link"
                          [] detectContentType(url) = "reddit" ->
                                IF rdConfigured THEN "getPost" ELSE "link"
    /\ UNCHANGED <<twConfigured, rdConfigured, uAssetErr, uAssetKind, uPlatformThrew, nTweet, nPost,
                   nComments, nLink, nClassify, nDownload, nLlm>>
    /\ SumFrame

\* summarizeGoogleDoc resolved: export downloaded, text extracted, model called
GoogleDocOk ==
    /\ uPc = "googleDoc"
    /\ uPc' = "done" /\ uContentType' = "article"
    /\ nDownload' = nDownload + 1 /\ nLlm' = nLlm + 1
    /\ UNCHANGED <<uUrl, twConfigured, rdConfigured, uAssetErr, uAssetKind, uErr, uPlatformThrew,
                   nTweet, nPost, nComments, nLink, nClassify>>
    /\ SumFrame

\* summarizeGoogleDoc threw, at the download or at a later step
GoogleDocFail(llmCalled) ==
    /\ uPc = "googleDoc"
    /\ uPc' = "failed" /\ uErr' = "googleDoc"
    /\ nDownload' = nDownload + 1
    /\ nLlm' = IF llmCalled THEN nLlm + 1 ELSE nLlm
    /\ UNCHANGED <<uUrl, twConfigured, rdConfigured, uAssetErr, uContentType, uAssetKind,
                   uPlatformThrew, nTweet, nPost, nComments, nLink, nClassify>>
    /\ SumFrame

\* trySummarizeAssetUrl: classifyUrlAsAsset resolved with kind
ClassifyUrl(kind) ==
    /\ uPc = "classify"
    /\ nClassify' = nClassify + 1
    /\ uPc' = IF kind # "asset" THEN "link" ELSE "download"
    /\ UNCHANGED <<uUrl, twConfigured, rdConfigured, uAssetErr, uContentType, uAssetKind, uErr,
                   uPlatformThrew, nTweet, nPost, nComments, nLink, nDownload, nLlm>>
    /\ SumFrame

\* the catch of trySummarizeAssetUrl: null (the article path follows) when the
\* message mentions html, the error again otherwise
AssetCatch(err, html) ==
    /\ uAssetErr' = err
    /\ IF isHtmlAssetError(html)
         THEN uPc' = "link" /\ uErr' = uErr
         ELSE uPc' = "failed" /\ uErr' = err
    /\ UNCHANGED <<uUrl, twConfigured, rdConfigured, uContentType, uAssetKind,
                   uPlatformThrew, nTweet, nPost, nComments, nLink, nClassify>>
    /\ SumFrame

\* loadAssetFromUrl resolved with an image or a document
DownloadOk(assetKind) ==
    /\ uPc = "download"
    /\ nDownload' = nDownload + 1
    /\ uAssetKind' = assetKind
    /\ uPc' = IF assetKind = "image" THEN "assetLlm" ELSE "extract"
    /\ UNCHANGED <<uUrl, twConfigured, rdConfigured, uAssetErr, uContentType, uErr, uPlatformThrew,
                   nTweet, nPost, nComments, nLink, nClassify, nLlm>>
    /\ SumFrame

\* loadAssetFromUrl threw
DownloadFail(err, html) ==
    /\ uPc = "download"
    /\ html \in MessageMentionsHtml(err)
    /\ nDownload' = nDownload + 1
    /\ AssetCatch(err, html)
    /\ UNCHANGED nLlm

\* summarizeAsset, document: extractDocumentText resolved with some text
ExtractOk ==
    /\ uPc = "extract"
    /\ uPc' = "assetLlm"
    /\ UNCHANGED <<uUrl, twConfigured, rdConfigured, uAssetErr, uContentType, uAssetKind, uErr,
                   uPlatformThrew, nTweet, nPost, nComments, nLink, nClassify, nDownload,
                   nLlm>>
    /\ SumFrame

\* summarizeAsset, document: extractDocumentText threw ("extract") or resolved with
\* an empty text ("noText")
ExtractFail(err, html) ==
    /\ uPc = "extract"
    /\ html \in MessageMentionsHtml(err)
    /\ AssetCatch(err, html)
    /\ UNCHANGED <<nDownload, nLlm>>

\* summarizeAsset: generateAnswer resolved, the asset result is returned
AssetGenerateOk ==
    /\ uPc = "assetLlm"
    /\ nLlm' = nLlm + 1
    /\ uPc' = "done" /\ uContentType' = uAssetKind
    /\ UNCHANGED <<uUrl, twConfigured, rdConfigured, uAssetErr, uAssetKind, uErr, uPlatformThrew,
                   nTweet, nPost, nComments, nLink, nClassify, nDownload>>
    /\ SumFrame

\* summarizeAsset: generateAnswer threw
AssetGenerateFail(html) ==
    /\ uPc = "assetLlm"
    /\ nLlm' = nLlm + 1
    /\ AssetCatch("llm", html)
    /\ UNCHANGED nDownload

\* case 'twitter', configured: twitterService.getTweet(url) resolved
GetTweetOk ==
    /\ uPc = "getTweet"
    /\ nTweet' = nTweet + 1
    /\ uPc' = "tweetContent"
    /\ UNCHANGED <<uUrl, twConfigured, rdConfigured, uAssetErr, uContentType, uAssetKind, uErr,
                   uPlatformThrew, nPost, nComments, nLink, nClassify, nDownload, nLlm>>
    /\ SumFrame

\* twitterService.getContentForSummarization(url) resolved: it fetched the tweet again
TweetContentOk ==
    /\ uPc = "tweetContent"
    /\ nTweet' = nTweet + 1
    /\ uPc' = "llm"
    /\ UNCHANGED <<uUrl, twConfigured, rdConfigured, uAssetErr, uContentType, uAssetKind, uErr,
                   uPlatformThrew, nPost, nComments, nLink, nClassify, nDownload, nLlm>>
    /\ SumFrame

\* getTweet threw, in summarize() or inside getContentForSummarization: nothing
\* between the call and the caller of summarize() catches it
GetTweetFail ==
    /\ uPc \in {"getTweet", "tweetContent"}
    /\ nTweet' = nTweet + 1
    /\ uPlatformThrew' = TRUE
    /\ uPc' = "failed" /\ uErr' = "tweet"
    /\ UNCHANGED <<uUrl, twConfigured, rdConfigured, uAssetErr, uContentType, uAssetKind, nPost,
                   nComments, nLink, nClassify, nDownload, nLlm>>
    /\ SumFrame

\* case 'reddit', configured: redditService.getPost(url) resolved
GetPostOk ==
    /\ uPc = "getPost"
    /\ nPost' = nPost + 1
    /\ uPc' = "postContent"
    /\ UNCHANGED <<uUrl, twConfigured, rdConfigured, uAssetErr, uContentType, uAssetKind, uErr,
                   uPlatformThrew, nTweet, nComments, nLink, nClassify, nDownload, nLlm>>
    /\ SumFrame

\* redditService.getContentForSummarization(url) resolved: it fetched the post again,
\* then the comments, whose failure it swallows
PostContentOk ==
    /\ uPc = "postContent"
    /\ nPost' = nPost + 1
    /\ nComments' = nComments + 1
    /\ uPc' = "llm"
    /\ UNCHANGED <<uUrl, twConfigured, rdConfigured, uAssetErr, uContentType, uAssetKind, uErr,
                   uPlatformThrew, nTweet, nLink, nClassify, nDownload, nLlm>>
    /\ SumFrame

\* getPost threw, in summarize() or inside getContentForSummarization
GetPostFail ==
    /\ uPc \in {"getPost", "postContent"}
    /\ nPost' = nPost + 1
    /\ uPlatformThrew' = TRUE
    /\ uPc' = "failed" /\ uErr' = "post"
    /\ UNCHANGED <<uUrl, twConfigured, rdConfigured, uAssetErr, uContentType, uAssetKind, nTweet,
                   nComments, nLink, nClassify, nDownload, nLlm>>
    /\ SumFrame

\* fetchSummarizeCoreContent(url) resolved
FetchLinkOk ==
    /\ uPc = "link"
    /\ nLink' = nLink + 1
    /\ uPc' = "llm"
    /\ UNCHANGED <<uUrl, twConfigured, rdConfigured, uAssetErr, uContentType, uAssetKind, uErr,
                   uPlatformThrew, nTweet, nPost, nComments, nClassify, nDownload, nLlm>>
    /\ SumFrame

\* fetchSummarizeCoreContent(url) threw
FetchLinkFail ==
    /\ uPc = "link"
    /\ nLink' = nLink + 1
    /\ uPc' = "failed" /\ uErr' = "link"
    /\ UNCHANGED <<uUrl, twConfigured, rdConfigured, uAssetErr, uContentType, uAssetKind,
                   uPlatformThrew, nTweet, nPost, nComments, nClassify, nDownload, nLlm>>
    /\ SumFrame

\* aiProvider.generateAnswer resolved: the response carries the detected contentType
SummarizeGenerateOk ==
    /\ uPc = "llm"
    /\ nLlm' = nLlm + 1
    /\ uPc' = "done"
    /\ UNCHANGED <<uUrl, twConfigured, rdConfigured, uAssetErr, uContentType, uAssetKind, uErr,
                   uPlatformThrew, nTweet, nPost, nComments, nLink, nClassify, nDownload>>
    /\ SumFrame

\* aiProvider.generateAnswer threw
SummarizeGenerateFail ==
    /\ uPc = "llm"
    /\ nLlm' = nLlm + 1
    /\ uPc' = "failed" /\ uErr' = "llm"
    /\ UNCHANGED <<uUrl, twConfigured, rdConfigured, uAssetErr, uContentType, uAssetKind,
                   uPlatformThrew, nTweet, nPost, nComments, nLink, nClassify, nDownload>>
    /\ SumFrame

NextSum ==
    \/ \E url \in UrlClasses : SummarizeBegin(url)
    \/ GoogleDocOk
    \/ \E llmCalled \in BOOLEAN : GoogleDocFail(llmCalled)
    \/ \E kind \in {"asset", "website"} : ClassifyUrl(kind)
    \/ \E assetKind \in {"image", "document"} : DownloadOk(assetKind)
    \/ \E err \in LoadErrors, html \in BOOLEAN : DownloadFail(err, html)
    \/ ExtractOk
    \/ \E err \in {"extract", "noText"}, html \in BOOLEAN : ExtractFail(err, html)
    \/ AssetGenerateOk
    \/ \E html \in BOOLEAN : AssetGenerateFail(html)
    \/ GetTweetOk
    \/ TweetContentOk
    \/ GetTweetFail
    \/ GetPostOk
    \/ PostContentOk
    \/ GetPostFail
    \/ FetchLinkOk
    \/ FetchLinkFail
    \/ SummarizeGenerateOk
    \/ SummarizeGenerateFail

InitU ==
    /\ table = Ids /\ InitSearch /\ InitMerge /\ InitCite /\ InitAsk /\ InitAssets /\ InitEnrich /\ InitTexts
    /\ InitSumCall
    /\ twConfigured \in BOOLEAN /\ rdConfigured \in BOOLEAN

SpecSum == InitU /\ [][NextSum]_vars

(***************************************************************************)
(* Asset service: media types, classifyUrlAsAsset                           *)
(***************************************************************************)
\* a media type is the pair <<top-level type, subtype>>, in lower case; null is <<>>
NullType == <<>>

\* a Content-Type header as the server sent it: absent, blank, or a media type
\* in either case, with or without parameters
NoHeader == [kind |-> "none", type |-> NullType, upper |-> FALSE, params |-> FALSE]

BlankHeader == [kind |-> "blank", type |-> NullType, upper |-> FALSE, params |-> FALSE]

HeaderValue(type, upper, params) ==
    [kind |-> "value", type |-> type, upper |-> upper, params |-> params]

\* trim, cut at ';', lower-case: what is left is the media type, null for no header
\* and for a blank one
normalizeHeaderMediaType(value) ==
    IF value.kind \in {"none", "blank"} THEN NullType ELSE value.type

normalizeMediaType(value) == normalizeHeaderMediaType(value)

isHtmlMediaType(mediaType) ==
    /\ mediaType # NullType
    /\ mediaType = <<"text", "html">> \/ mediaType = <<"application", "xhtml+xml">>

isLikelyAssetMediaType(mediaType) ==
    IF mediaType = NullType THEN FALSE
    ELSE IF isHtmlMediaType(mediaType) THEN FALSE
    ELSE TRUE

\* path.extname of the names used as inputs: none, a bare dot, page-like and
\* file-like extensions in either case
ExtNames == {"", ".", ".html", ".HTML", ".htm", ".php", ".asp", ".aspx", ".pdf", ".PNG", ".zip"}

ToLowerCase(ext) ==
    CASE ext = ".HTML" -> ".html"
      [] ext = ".PNG" -> ".png"
      [] OTHER -> ext

PageExtensions == {".html", ".htm", ".php", ".asp", ".aspx"}

\* a slip: the pathname is not looked at, every url is probed
NoPathnameShortcut(extname) == FALSE

\* isLikelyAssetPathname, on the extname of the pathname
isLikelyAssetPathname(extname) ==
    LET ext == ToLowerCase(extname)
    IN IF ext = "" THEN FALSE
       ELSE IF ext \in PageExtensions THEN FALSE
       ELSE TRUE

\* the Content-Type headers the probes are answered with
ProbeHeaders ==
    {NoHeader, BlankHeader} \cup
    {HeaderValue(t, u, p) : t \in {<<"text", "html">>, <<"application", "xhtml+xml">>,
                                   <<"application", "pdf">>},
                            u \in BOOLEAN, p \in BOOLEAN}

\* Content-Disposition: no filename ("none"), or the extname of the filename
Dispositions == {"none", "", ".pdf", ".HTML"}

NoProbe ==
    [issued |-> FALSE, threw |-> FALSE, ok |-> FALSE, contentType |-> NoHeader,
     disposition |-> "none", html |-> FALSE, asset |-> FALSE]

\* a probe that threw: network error, timeout (abort), or a body that cannot be read
ThrownProbe == [NoProbe EXCEPT !.issued = TRUE, !.threw = TRUE]

HeadResponses ==
    {ThrownProbe} \cup
    {[NoProbe EXCEPT !.issued = TRUE, !.ok = ok, !.contentType = ct, !.disposition = cd] :
        ok \in BOOLEAN, ct \in ProbeHeaders, cd \in Dispositions}

RangeResponses ==
    {ThrownProbe} \cup
    {[NoProbe EXCEPT !.issued = TRUE, !.ok = ok, !.contentType = ct, !.html = h] :
        ok \in BOOLEAN, ct \in ProbeHeaders, h \in BOOLEAN}

tryDetectFromHead(res) ==
    IF res.threw THEN FALSE
    ELSE IF ~res.ok THEN FALSE
    ELSE IF isLikelyAssetMediaType(normalizeHeaderMediaType(res.contentType)) THEN TRUE
    ELSE IF res.disposition # "none" /\ isLikelyAssetPathname(res.disposition) THEN TRUE
    ELSE FALSE

\* a slip: only the body decides, also for a request that failed
RangeNotHtml(res) == ~res.html

tryDetectFromRange(res) ==
    IF res.threw THEN FALSE
    ELSE IF ~res.ok THEN FALSE
    ELSE IF isLikelyAssetMediaType(normalizeHeaderMediaType(res.contentType)) THEN TRUE
    ELSE ~res.html

\* classifyUrlAsAsset on a string new URL() rejects
ClassifyUnparsable ==
    /\ kPc = "idle"
    /\ kPath' = "unparsable" /\ kRaised' = TRUE /\ kPc' = "done"
    /\ UNCHANGED <<kHead, kRange, kCalls, kResult>>
    /\ ClassFrame

\* classifyUrlAsAsset up to its first await
ClassifyBegin(extname) ==
    /\ kPc = "idle"
    /\ kPath' = extname
    /\ IF isLikelyAssetPathname(extname)
         THEN kResult' = "asset" /\ kPc' = "done"
         ELSE kResult' = kResult /\ kPc' = "head"
    /\ UNCHANGED <<kHead, kRange, kCalls, kRaised>>
    /\ ClassFrame

\* a slip: the ranged GET is issued whatever the HEAD probe concluded
AlwaysRange(asset) == "range"

\* if (await tryDetectFromHead()) return { kind: 'asset' }; otherwise the ranged GET is next
AfterHead(asset) == IF asset THEN "done" ELSE "range"

\* the HEAD request ended with res
HeadProbe(res) ==
    /\ kPc = "head"
    /\ kCalls' = Append(kCalls, "HEAD")
    /\ kHead' = [res EXCEPT !.asset = tryDetectFromHead(res)]
    /\ kPc' = AfterHead(tryDetectFromHead(res))
    /\ kResult' = IF tryDetectFromHead(res) THEN "asset" ELSE kResult
    /\ UNCHANGED <<kPath, kRange, kRaised>>
    /\ ClassFrame

\* the ranged GET request ended with res
RangeProbe(res) ==
    /\ kPc = "range"
    /\ kCalls' = Append(kCalls, "GET")
    /\ kRange' = [res EXCEPT !.asset = tryDetectFromRange(res)]
    /\ kResult' = IF tryDetectFromRange(res) THEN "asset" ELSE "website"
    /\ kPc' = "done"
    /\ UNCHANGED <<kPath, kHead, kRaised>>
    /\ ClassFrame

NextClassify ==
    \/ ClassifyUnparsable
    \/ \E extname \in ExtNames : ClassifyBegin(extname)
    \/ \E res \in HeadResponses : HeadProbe(res)
    \/ \E res \in RangeResponses : RangeProbe(res)

InitK ==
    /\ table = Ids /\ InitSearch /\ InitMerge /\ InitCite /\ InitAsk /\ InitSum
    /\ InitClassify /\ InitLoad /\ InitEnrich /\ InitTexts

SpecClassify == InitK /\ [][NextClassify]_vars

(***************************************************************************)
(* Asset service: loadAssetFromUrl, loadAssetFromPath                       *)
(***************************************************************************)
ARCHIVE_MEDIA_TYPES ==
    {<<"application", "zip">>, <<"application", "x-zip-compressed">>,
     <<"application", "x-7z-compressed">>, <<"application", "x-rar-compressed">>,
     <<"application", "x-tar">>, <<"application", "gzip">>}

SUPPORTED_IMAGE_TYPES ==
    {<<"image", "jpeg">>, <<"image", "png">>, <<"image", "gif">>, <<"image", "webp">>}

SUPPORTED_DOCUMENT_TYPES ==
    {<<"application", "pdf">>,
     <<"application", "vnd.openxmlformats-officedocument.wordprocessingml.document">>}

isTextLikeMediaType(mediaType) ==
    \/ mediaType[1] = "text"
    \/ mediaType \in {<<"application", "json">>, <<"application", "xml">>,
                      <<"application", "x-yaml">>, <<"application", "yaml">>,
                      <<"application", "toml">>, <<"application", "rtf">>,
                      <<"application", "javascript">>}

\* the prefix test on 'application/vnd.openxmlformats-officedocument.' is covered
\* for the one such type among the inputs
shouldPreprocessMediaType(mediaType) ==
    mediaType \in {<<"application", "pdf">>, <<"application", "rtf">>, <<"text", "html">>,
                   <<"application", "xhtml+xml">>, <<"application", "msword">>,
                   <<"application", "vnd.openxmlformats-officedocument.wordprocessingml.document">>,
                   <<"application", "vnd.ms-excel">>, <<"application", "vnd.ms-powerpoint">>}

\* "null" stands for null
classifyAssetKind(mediaType) ==
    IF mediaType[1] = "image"
      THEN (IF mediaType \in SUPPORTED_IMAGE_TYPES THEN "image" ELSE "null")
    ELSE IF isTextLikeMediaType(mediaType) /\ ~isHtmlMediaType(mediaType) THEN "document"
    ELSE IF shouldPreprocessMediaType(mediaType) THEN "document"
    ELSE IF mediaType \in SUPPORTED_DOCUMENT_TYPES THEN "document"
    ELSE "null"

\* sniffed: fileTypeFromBuffer(bytes)?.mime, byExt: mime.getType(filename), null if none
detectMediaType(sniffed, providedMimeType, byExt) ==
    LET header == normalizeMediaType(providedMimeType)
    IN IF sniffed # NullType THEN sniffed
       ELSE IF header # NullType /\ header # <<"application", "octet-stream">> THEN header
       ELSE IF byExt # NullType THEN byExt
       ELSE <<"application", "octet-stream">>

\* an outcome of either loader: the AssetInput returned or the error thrown
LoadError(err) ==
    [status |-> "error", error |-> err, kind |-> "null", mediaType |-> NullType, sizeBytes |-> 0]

LoadedAsset(kind, mediaType, size) ==
    [status |-> "asset", error |-> "none", kind |-> kind, mediaType |-> mediaType,
     sizeBytes |-> size]

\* a slip: only archives are refused
TypeChecksArchiveOnly(in, maxBytes, mediaType) ==
    IF mediaType \in ARCHIVE_MEDIA_TYPES THEN LoadError("archive")
    ELSE LoadedAsset(classifyAssetKind(mediaType), mediaType, in.actual)

\* the checks both loaders make on the media type, and the value returned
TypeChecks(in, maxBytes, mediaType) ==
    IF mediaType \in ARCHIVE_MEDIA_TYPES THEN LoadError("archive")
    ELSE IF classifyAssetKind(mediaType) = "null" THEN LoadError("unsupported")
    ELSE LoadedAsset(classifyAssetKind(mediaType), mediaType, in.actual)

\* in.declared is the Content-Length header: absent, not a number, or a number
LoadAssetFromUrl(in, maxBytes) ==
    LET mediaType == detectMediaType(in.sniffed, in.header, in.byExt)
    IN IF in.threw THEN LoadError("fetch")
       ELSE IF ~in.ok THEN LoadError("status")
       ELSE IF in.declared.kind = "number" /\ in.declared.value > maxBytes
         THEN LoadError("tooLarge")
       ELSE IF in.actual > maxBytes THEN LoadError("tooLarge")
       ELSE IF isHtmlMediaType(mediaType) \/ in.html THEN LoadError("website")
       ELSE TypeChecks(in, maxBytes, mediaType)

\* in.declared is stat.size, in.actual the length of what readFile returned
LoadAssetFromPath(in, maxBytes) ==
    LET mediaType == detectMediaType(in.sniffed, in.header, in.byExt)
    IN IF in.threw THEN LoadError("fs")
       ELSE IF ~in.ok THEN LoadError("notFile")
       ELSE IF in.declared.value > maxBytes THEN LoadError("tooLarge")
       ELSE TypeChecks(in, maxBytes, mediaType)


\* sizes of files and bodies run from 0 to one byte over the largest cap
MaxAssetBytes == 2

AssetSizes == 0..(MaxAssetBytes + 1)

SniffedTypes ==
    {NullType, <<"image", "png">>, <<"image", "tiff">>, <<"application", "pdf">>,
     <<"application", "zip">>, <<"video", "mp4">>}

LoadHeaders ==
    {NoHeader, HeaderValue(<<"text", "html">>, TRUE, TRUE),
     HeaderValue(<<"application", "octet-stream">>, FALSE, FALSE),
     HeaderValue(<<"application", "gzip">>, FALSE, FALSE),
     HeaderValue(<<"text", "plain">>, FALSE, TRUE)}

ExtTypes == {NullType, <<"application", "zip">>, <<"image", "png">>, <<"text", "html">>}

\* the size the remote side or the file system announces
DeclaredSizes ==
    {[kind |-> "none", value |-> 0], [kind |-> "nan", value |-> 0]} \cup
    {[kind |-> "number", value |-> n] : n \in AssetSizes}

\* what a loader can meet: the call failing, a refusal, or content of some length
\* (which need not be the announced one) whose bytes, header and name suggest types;
\* an empty body has no signature, and no sniffed binary starts like an HTML page
LoadInputs ==
    {in \in [threw : BOOLEAN, ok : BOOLEAN, declared : DeclaredSizes, actual : AssetSizes,
             sniffed : SniffedTypes, header : LoadHeaders, byExt : ExtTypes, html : BOOLEAN] :
        /\ in.threw => ~in.ok
        /\ (in.threw \/ ~in.ok) =>
              /\ in.declared.kind = "none" /\ in.actual = 0 /\ in.sniffed = NullType
              /\ in.header = NoHeader /\ in.byExt = NullType /\ ~in.html
        /\ in.actual = 0 => in.sniffed = NullType /\ ~in.html
        /\ in.html => in.sniffed = NullType}

\* loadAssetFromUrl({url, maxBytes}) with the remote side answering in
LoadFromUrl(in, maxBytes) ==
    /\ lPc = "idle"
    /\ lPc' = "done" /\ lFrom' = "url" /\ lIn' = in /\ lMax' = maxBytes
    /\ lOut' = LoadAssetFromUrl(in, maxBytes)
    /\ LoadFrame

\* loadAssetFromPath({filePath, maxBytes}): stat always gives a size
LoadFromPath(in, maxBytes) ==
    /\ lPc = "idle"
    /\ in.declared.kind = "number"
    /\ lPc' = "done" /\ lFrom' = "path" /\ lIn' = in /\ lMax' = maxBytes
    /\ lOut' = LoadAssetFromPath(in, maxBytes)
    /\ LoadFrame

NextLoad ==
    \/ \E in \in LoadInputs, maxBytes \in 1..MaxAssetBytes : LoadFromUrl(in, maxBytes)
    \/ \E in \in LoadInputs, maxBytes \in 1..MaxAssetBytes : LoadFromPath(in, maxBytes)

InitL ==
    /\ table = Ids /\ InitSearch /\ InitMerge /\ InitCite /\ InitAsk /\ InitSum
    /\ InitClassify /\ InitLoad /\ InitEnrich /\ InitTexts

SpecLoad == InitL /\ [][NextLoad]_vars

(***************************************************************************)
(* AI provider enrich, EnrichmentService.enrichAsync, ContentService.capture *)
(***************************************************************************)
\* what the model answers to the enrichment prompt: whether the text holds a
\* '{' ... '}' span, whether that span is valid JSON, and for each of the three keys
\* of the parsed object whether it is absent (or null), empty, or of which kind
ModelTexts ==
    {t \in [hasObject : BOOLEAN, valid : BOOLEAN, title : {"absent", "empty", "text"},
            description : {"absent", "empty", "text"},
            tags : {"absent", "array", "string", "object"}] :
        (~t.hasObject \/ ~t.valid) =>
            t.title = "absent" /\ t.description = "absent" /\ t.tags = "absent"}

\* JSON.parse(jsonMatch ? jsonMatch[0] : '{}'): the keys of the object, or a throw
JsonParse(text) ==
    IF ~text.hasObject
      THEN [threw |-> FALSE, title |-> "absent", description |-> "absent", tags |-> "absent"]
    ELSE IF ~text.valid
      THEN [threw |-> TRUE, title |-> "absent", description |-> "absent", tags |-> "absent"]
    ELSE [threw |-> FALSE, title |-> text.title, description |-> text.description,
          tags |-> text.tags]

\* the title, description and tags of the model are "T", "D" and <<"tag">>
EnrichResult(title, description, tags) ==
    [raised |-> FALSE, title |-> title, description |-> description, tags |-> tags]

\* a slip: tags are passed on whatever their type
EnrichKeepsTags(text) ==
    LET result == JsonParse(text)
    IN IF result.threw THEN EnrichResult("Untitled", "", <<>>)
       ELSE EnrichResult(IF result.title = "text" THEN "T" ELSE "Untitled",
                         IF result.description = "text" THEN "D" ELSE "",
                         IF result.tags # "absent" THEN <<"tag">> ELSE <<>>)

\* OpenAIProvider.enrich / AnthropicProvider.enrich after generateText resolved
enrich(text) ==
    LET result == JsonParse(text)
    IN IF result.threw THEN EnrichResult("Untitled", "", <<>>)
       ELSE EnrichResult(IF result.title = "text" THEN "T" ELSE "Untitled",
                         IF result.description = "text" THEN "D" ELSE "",
                         IF result.tags = "array" THEN <<"tag">> ELSE <<>>)

\* capture: the item is created; enrichAsync is called and runs up to its first
\* await, the summarization of a url is started, the response is returned
CaptureCreateOk(isUrl, blank) ==
    /\ cpPc = "idle"
    /\ eStatus' = "pending" /\ eBlank' = blank
    /\ ePc' = "tags"
    /\ bgPc' = IF isUrl THEN "summarize" ELSE "off"
    /\ cpPc' = "returned" /\ cpResp' = [status |-> "captured", enrichment |-> "pending"]
    /\ UNCHANGED <<eWrites, eFailedAt, eText, eMeta, eStored, eSummary>>
    /\ EnrichFrame

\* capture: extractUrlMetadata or contentRepo.create rejected
CaptureCreateFail ==
    /\ cpPc = "idle"
    /\ cpPc' = "failed"
    /\ UNCHANGED <<cpResp, ePc, eStatus, eWrites, eFailedAt, eText, eMeta, eStored, bgPc,
                   eBlank, eSummary>>
    /\ EnrichFrame

\* enrichAsync: contentRepo.getAllTags resolved
EnrichTagsOk ==
    /\ ePc = "tags"
    /\ ePc' = "model"
    /\ UNCHANGED <<cpPc, cpResp, eStatus, eWrites, eFailedAt, eText, eMeta, eStored, bgPc,
                   eBlank, eSummary>>
    /\ EnrichFrame

\* enrichAsync: generateText resolved with text inside enrichContent
EnrichModelOk(text) ==
    /\ ePc = "model"
    /\ eText' = text
    /\ IF enrich(text).raised
         THEN ePc' = "markFailed" /\ eFailedAt' = "model"
         ELSE ePc' = "update" /\ eFailedAt' = eFailedAt
    /\ UNCHANGED <<cpPc, cpResp, eStatus, eWrites, eMeta, eStored, bgPc, eBlank, eSummary>>
    /\ EnrichFrame

\* enrichAsync: contentRepo.update with the enriched fields and 'completed' resolved
EnrichUpdateOk ==
    /\ ePc = "update"
    /\ eMeta' = [title |-> enrich(eText).title, description |-> enrich(eText).description,
                 tags |-> enrich(eText).tags]
    /\ eStatus' = "completed" /\ eWrites' = Append(eWrites, "completed")
    /\ ePc' = "embed"
    /\ UNCHANGED <<cpPc, cpResp, eFailedAt, eText, eStored, bgPc, eBlank, eSummary>>
    /\ EnrichFrame

\* enrichAsync: generateEmbedding resolved
EnrichEmbedOk ==
    /\ ePc = "embed"
    /\ ePc' = "store"
    /\ UNCHANGED <<cpPc, cpResp, eStatus, eWrites, eFailedAt, eText, eMeta, eStored, bgPc,
                   eBlank, eSummary>>
    /\ EnrichFrame

\* enrichAsync: embeddingRepo.store resolved, the run ends
EnrichStoreOk ==
    /\ ePc = "store"
    /\ eStored' = TRUE
    /\ ePc' = "resolved"
    /\ UNCHANGED <<cpPc, cpResp, eStatus, eWrites, eFailedAt, eText, eMeta, bgPc, eBlank,
                   eSummary>>
    /\ EnrichFrame

\* enrichAsync: the call awaited threw; the catch block starts the 'failed' update
EnrichStepFail ==
    /\ ePc \in {"tags", "model", "update", "embed", "store"}
    /\ eFailedAt' = ePc
    /\ ePc' = "markFailed"
    /\ UNCHANGED <<cpPc, cpResp, eStatus, eWrites, eText, eMeta, eStored, bgPc, eBlank,
                   eSummary>>
    /\ EnrichFrame

\* enrichAsync, catch: contentRepo.update with 'failed' resolved
MarkFailedOk ==
    /\ ePc = "markFailed"
    /\ eStatus' = "failed" /\ eWrites' = Append(eWrites, "failed")
    /\ ePc' = "resolved"
    /\ UNCHANGED <<cpPc, cpResp, eFailedAt, eText, eMeta, eStored, bgPc, eBlank, eSummary>>
    /\ EnrichFrame

\* a slip: the error of the 'failed' update leaves enrichAsync
RethrowUpdateError == "rejected"

\* how enrichAsync ends when the 'failed' update threw: the inner catch logs it
AfterUpdateError == "resolved"

\* enrichAsync, catch: contentRepo.update with 'failed' threw
MarkFailedFail ==
    /\ ePc = "markFailed"
    /\ ePc' = AfterUpdateError
    /\ UNCHANGED <<cpPc, cpResp, eStatus, eWrites, eFailedAt, eText, eMeta, eStored, bgPc,
                   eBlank, eSummary>>
    /\ EnrichFrame


\* capture's detached summarization: the call awaited resolved (summarize, the
\* update with its summary, the fallback generateAnswer, the update with its answer)
BgStepOk ==
    /\ bgPc \in {"summarize", "saveSummary", "fallback", "saveFallback"}
    /\ bgPc' = CASE bgPc = "summarize" -> "saveSummary"
                 [] bgPc = "fallback" -> "saveFallback"
                 [] OTHER -> "end"
    /\ eSummary' = CASE bgPc = "saveSummary" -> "summary"
                     [] bgPc = "saveFallback" -> "fallback"
                     [] OTHER -> eSummary
    /\ UNCHANGED <<cpPc, cpResp, ePc, eStatus, eWrites, eFailedAt, eText, eMeta, eStored,
                   eBlank>>
    /\ EnrichFrame

\* capture's detached summarization: the call awaited threw; the first catch starts
\* the fallback unless rawContent is blank, the second only logs
BgStepFail ==
    /\ bgPc \in {"summarize", "saveSummary", "fallback", "saveFallback"}
    /\ bgPc' = IF bgPc \in {"summarize", "saveSummary"} /\ ~eBlank THEN "fallback" ELSE "end"
    /\ UNCHANGED <<cpPc, cpResp, ePc, eStatus, eWrites, eFailedAt, eText, eMeta, eStored,
                   eBlank, eSummary>>
    /\ EnrichFrame

NextEnrich ==
    \/ \E isUrl \in BOOLEAN, blank \in BOOLEAN : CaptureCreateOk(isUrl, blank)
    \/ CaptureCreateFail
    \/ EnrichTagsOk
    \/ \E text \in ModelTexts : EnrichModelOk(text)
    \/ EnrichUpdateOk
    \/ EnrichEmbedOk
    \/ EnrichStoreOk
    \/ EnrichStepFail
    \/ MarkFailedOk
    \/ MarkFailedFail
    \/ BgStepOk
    \/ BgStepFail

InitE ==
    /\ table = Ids /\ InitSearch /\ InitMerge /\ InitCite /\ InitAsk /\ InitSum
    /\ InitAssets /\ InitEnrich /\ InitTexts

SpecEnrich == InitE /\ [][NextEnrich]_vars

(***************************************************************************)
(* AskService.truncateContent                                               *)
(***************************************************************************)
\* the excerpt bound ask() passes to truncateContent (1500 in the source)
ExcerptMaxLength == 5

\* the characters the sentence-boundary search tells apart, and one other
ContentChars == {"a", ".", "!", "?", " ", "\n"}

\* rawContent values: up to one character more than the bound
Contents == SeqsUpTo(ContentChars, ExcerptMaxLength + 1)

\* String.prototype.lastIndexOf for a two-character pattern: 0-based, -1 if absent
LastIndexOf(s, first, second) ==
    LET hits == {k \in 1..(Len(s) - 1) : s[k] = first /\ s[k + 1] = second}
    IN IF hits = {} THEN -1 ELSE (CHOOSE k \in hits : \A j \in hits : j <= k) - 1

\* Math.max over a non-empty set of numbers
MathMax(S) == CHOOSE x \in S : \A y \in S : y <= x

\* AskService.truncateContent
truncateContent(content, maxLength) ==
    IF Len(content) <= maxLength THEN content
    ELSE LET truncated == SubSeq(content, 1, maxLength)
             lastSentenceEnd == MathMax({LastIndexOf(truncated, ".", " "),
                                         LastIndexOf(truncated, ".", "\n"),
                                         LastIndexOf(truncated, "!", " "),
                                         LastIndexOf(truncated, "?", " ")})
         IN IF 2 * lastSentenceEnd > maxLength
            THEN SubSeq(truncated, 1, lastSentenceEnd + 1)
            ELSE truncated \o <<".", ".", ".">>

\* ask(): excerpt: this.truncateContent(fullItem.rawContent, 1500)
TruncateExcerpt ==
    /\ tPc = "input"
    /\ tOut' = truncateContent(tContent, ExcerptMaxLength)
    /\ tPc' = "done"
    /\ UNCHANGED tContent
    /\ TruncFrame

NextTrunc ==
    \/ TruncateExcerpt

InitT ==
    /\ table = Ids /\ InitSearch /\ InitMerge /\ InitCite /\ InitAsk /\ InitSum
    /\ InitAssets /\ InitEnrich /\ InitDoc
    /\ tPc = "input" /\ tOut = <<>>
    /\ tContent \in Contents

SpecTrunc == InitT /\ [][NextTrunc]_vars

(***************************************************************************)
(* extractDocumentText                                                      *)
(***************************************************************************)
\* MAX_EXTRACTED_TEXT_CHARS (20000 in the source)
MAX_EXTRACTED_TEXT_CHARS == 3

\* a character that is not white space, and two that /\s/ matches
DocChars == {"x", " ", "\n"}

IsSpace(ch) == ch \in {" ", "\n"}

\* value.replace(/\s+/g, ' '): every maximal run of white space becomes one blank
RECURSIVE CollapseSpace(_)
CollapseSpace(value) ==
    IF value = <<>> THEN <<>>
    ELSE IF IsSpace(Head(value))
         THEN IF Len(value) > 1 /\ IsSpace(value[2])
              THEN CollapseSpace(Tail(value))
              ELSE <<" ">> \o CollapseSpace(Tail(value))
         ELSE <<Head(value)>> \o CollapseSpace(Tail(value))

\* String.prototype.trim
RECURSIVE Trim(_)
Trim(value) ==
    IF value = <<>> THEN <<>>
    ELSE IF IsSpace(Head(value)) THEN Trim(Tail(value))
    ELSE IF IsSpace(value[Len(value)]) THEN Trim(SubSeq(value, 1, Len(value) - 1))
    ELSE value

\* normalizeText
normalizeText(value) == Trim(CollapseSpace(value))

\* the result of a successful extraction
ExtractedDocumentText(text, truncated) ==
    [status |-> "ok", error |-> "none", text |-> text, truncated |-> truncated]

\* the error extractDocumentText rejects with
ExtractError(error) == [status |-> "error", error |-> error, text |-> <<>>, truncated |-> FALSE]

\* a slip: a text of exactly maxChars characters counts as truncated
TruncateTextStrict(value, maxChars) ==
    IF Len(value) < maxChars THEN ExtractedDocumentText(value, FALSE)
    ELSE ExtractedDocumentText(SubSeq(value, 1, maxChars), TRUE)

\* truncateText
truncateText(value, maxChars) ==
    IF Len(value) <= maxChars THEN ExtractedDocumentText(value, FALSE)
    ELSE ExtractedDocumentText(SubSeq(value, 1, maxChars), TRUE)

\* the media types extractDocumentText has a branch for
ParsedDocumentTypes == {"text/plain", "application/pdf", "docx"}

\* result.text || '' and result.value || '': a missing or empty field reads as ''
OrEmpty(parsed) == IF parsed.kind = "string" THEN parsed.value ELSE <<>>

\* the source texts: up to two characters more than the cap
DocTexts == SeqsUpTo(DocChars, MAX_EXTRACTED_TEXT_CHARS + 2)

\* what the parser hands back: a string, or no text field at all
ParsedTexts ==
    [kind : {"string"}, value : DocTexts] \cup {[kind |-> "undefined", value |-> <<>>]}

\* the assets handed in; TextDecoder neither throws nor yields undefined
DocInputs ==
    {in \in [kind : {"document", "image"},
             mediaType : ParsedDocumentTypes \cup {"text/markdown"},
             throws : BOOLEAN,
             parsed : ParsedTexts] :
        /\ in.mediaType \notin {"application/pdf", "docx"} =>
              ~in.throws /\ in.parsed.kind = "string"
        /\ in.throws => in.parsed.value = <<>> /\ in.parsed.kind = "string"
        /\ in.kind = "image" => in.parsed.value = <<>> /\ in.parsed.kind = "string"}

\* extractDocumentText
extractDocumentText(asset) ==
    IF asset.kind # "document" THEN ExtractError("unsupported asset type")
    ELSE IF asset.mediaType \in ParsedDocumentTypes
    THEN IF asset.throws THEN ExtractError("parser")
         ELSE truncateText(normalizeText(OrEmpty(asset.parsed)), MAX_EXTRACTED_TEXT_CHARS)
    ELSE ExtractError("unsupported document type")

ExtractDocument ==
    /\ dPc = "input"
    /\ dOut' = extractDocumentText(dIn)
    /\ dPc' = "done"
    /\ UNCHANGED dIn
    /\ DocFrame

NextDoc ==
    \/ ExtractDocument

InitD ==
    /\ table = Ids /\ InitSearch /\ InitMerge /\ InitCite /\ InitAsk /\ InitSum
    /\ InitAssets /\ InitEnrich /\ InitTrunc
    /\ dPc = "input" /\ dOut = NoExtract
    /\ dIn \in DocInputs

SpecDoc == InitD /\ [][NextDoc]_vars

(***************************************************************************)
(* Claims                                                                   *)
(***************************************************************************)

\* C1: in semantic search the results are the similarity-ranked candidates of
\* searchSimilar without the ids the batch fetch did not return: same relative
\* order as the candidates whatever the order of the fetched rows, each result
\* scored with the similarity of its own candidate, and a missing id is no error.
C1_SemanticKeepsRank ==
    semPc = "done" =>
        LET cand == IdsOf(similarItems)
            got == IdsOf(semResults)
            RankOf(id) == CHOOSE k \in 1..Len(cand) : cand[k] = id
        IN /\ semErr = "none"
           /\ Range(got) = Range(cand) \cap Range(IdsOf(semRows))
           /\ \A i, j \in 1..Len(got) : i < j => RankOf(got[i]) < RankOf(got[j])
           /\ \A i \in 1..Len(got) :
                /\ semResults[i].hasScore
                /\ semResults[i].score = similarItems[RankOf(got[i])].similarity

\* three candidates, one of them deleted before the fetch, the two others
\* fetched in the reverse of their rank order
C1_Witness ==
    /\ semPc = "done"
    /\ Len(similarItems) = 3
    /\ Len(semResults) = 2
    /\ IdsOf(semRows) # IdsOf(semResults)

\* C2: in the hybrid result every semantic-sourced id comes before every
\* keyword-only id; the semantic results keep their order and their scores, and
\* the keyword results (in keyword order, ids already present skipped) only
\* fill what capacity is left.
C2_SemanticBeforeKeyword ==
    (sMode = "hybrid" /\ sPc = "done") =>
        LET sem == SemanticOrEmpty
            semIds == Range(IdsOf(sem))
            out == sMerged
            kwOnly == SelectSeq(kwResults, LAMBDA r : r.id \notin semIds)
            nSem == Min(Len(sem), Len(out))
        IN /\ \A i, j \in 1..Len(out) : (out[i].id \in semIds /\ out[j].id \notin semIds) => i < j
           /\ \A k \in 1..nSem : out[k] = sem[k]
           /\ Len(out) > nSem => Len(sem) < sLimit
           /\ \A k \in (nSem + 1)..Len(out) : out[k] = kwOnly[k - nSem]

\* a semantic hit that is also the first keyword hit, followed by a keyword-only result
C2_Witness ==
    /\ sMode = "hybrid" /\ sPc = "done"
    /\ Len(semResults) = 1 /\ Len(kwResults) = 2 /\ Len(sMerged) = 2
    /\ kwResults[2].id = semResults[1].id
    /\ sMerged[1].hasScore /\ ~sMerged[2].hasScore

\* C3: the hybrid merge never returns an id twice and never more than `limit`
\* entries, whatever the two lists are.
C3_MergeBoundedNoDuplicates ==
    mPc = "merged" =>
        /\ Len(mOut) <= mLimit
        /\ \A i, j \in 1..Len(mOut) : i # j => mOut[i].id # mOut[j].id

\* both lists longer than limit, overlapping, the keyword list repeating an id
C3_Witness ==
    /\ mPc = "merged"
    /\ Len(mSemantic) > mLimit /\ Len(mKeyword) > mLimit
    /\ Range(IdsOf(mSemantic)) \cap Range(IdsOf(mKeyword)) # {}
    /\ \E i, j \in 1..Len(mKeyword) : i # j /\ mKeyword[i].id = mKeyword[j].id
    /\ \E i, j \in 1..Len(mSemantic) : i # j /\ mSemantic[i].id = mSemantic[j].id
    /\ Len(mOut) = mLimit

\* C4: in hybrid mode a failure of the semantic branch, at whichever step,
\* does not fail the search: the semantic results count as empty and the
\* hybrid result is the keyword results cut to `limit`.
C4_SemanticFailureAbsorbed ==
    (sMode = "hybrid" /\ semPc = "failed" /\ kwPc = "done") =>
        /\ AwaitedCall = "resolved"
        /\ sPc # "failed"
        /\ sPc = "done" => sMerged = SliceTo(kwResults, sLimit)

\* the batch fetch of the semantic branch threw and the search returned keyword results
C4_Witness ==
    /\ sMode = "hybrid" /\ sPc = "done"
    /\ semPc = "failed" /\ semErr = "fetch"
    /\ Len(sMerged) = 2

\* position of a source id in the source list handed to generateAnswer
CiteIndexOf(id) == CHOOSE n \in 1..Len(cSources) : cSources[n].id = id

\* C5: sourcesUsed is in ascending order of citation number, not in the order
\* in which the markers first appear in the answer (sources [s1,s2,s3], an
\* answer citing [3] before [1]: sourcesUsed = [s1.id, s3.id]; here with two
\* sources and an answer citing [2] before [1]).
C5_AscendingCitationOrder ==
    cPc = "done" =>
        \A i, j \in 1..Len(cUsed) : i < j => CiteIndexOf(cUsed[i]) < CiteIndexOf(cUsed[j])

\* the integers n in 1..maxN that occur as [n] in the answer
CitedNumbersIn(answer, maxN) ==
    {n \in 1..maxN :
        \E i, j \in 1..Len(answer) :
            /\ i + 1 < j
            /\ answer[i] = "[" /\ answer[j] = "]"
            /\ \A k \in (i + 1)..(j - 1) : answer[k] \in DigitChars
            /\ ParseInt(SubSeq(answer, i + 1, j - 1), 0) = n}

CitedInRange == CitedNumbersIn(cAnswer, Len(cSources))

\* C6: sourcesUsed holds exactly sources[n-1].id for the distinct integers n
\* cited as [n] with 1 <= n <= sources.length: one entry per cited number
\* however often it is cited, none for 0 or for numbers beyond the list.
C6_ExactlyTheCitedSources ==
    cPc = "done" =>
        /\ Range(cUsed) = {cSources[n].id : n \in CitedInRange}
        /\ Len(cUsed) = Cardinality(CitedInRange)

\* one source cited twice, a zero and an out-of-range number beside it
C6_Witness ==
    /\ cPc = "done"
    /\ Len(cSources) = 1
    /\ cAnswer \in {<<"[", "1", "]", "[", "1", "]">>, <<"[", "0", "]", "[", "1", "]">>, <<"[", "1", "]", "[", "2", "]">>}
    /\ cUsed = <<cSources[1].id>>

\* C7: with zero search results ask returns the canned "couldn't find" answer,
\* no sources and totalSourcesSearched = 0, and calls neither the item fetch
\* nor the language model.
C7_NoResultsShortCircuit ==
    (aPc \notin {"idle", "failed"} /\ Len(aSearch) = 0) =>
        /\ aPc = "done"
        /\ aResp = [answer |-> CouldNotFind, sources |-> <<>>, totalSourcesSearched |-> 0]
        /\ aFetchCalls = 0
        /\ llmCalls = 0

\* the search found nothing although rows are stored
C7_Witness ==
    /\ aPc = "done" /\ Len(aSearch) = 0 /\ table # {}
    /\ aResp.answer = CouldNotFind

\* C8: whenever the source list ask would hand to answer synthesis is empty,
\* also when the search returned results whose rows can no longer be fetched,
\* ask returns the canned answer and makes no language-model call.
C8_EmptySourcesNoModelCall ==
    (aPc \in {"generate", "done", "failed"} /\ aSources = <<>>) =>
        /\ llmCalls = 0
        /\ aPc = "done" => aResp.answer = CouldNotFind

\* C9: every returned source carries as citationNumber 1 + its index in the
\* list sent to the language model (the search results whose row was fetched),
\* the number of its [N] marker in the answer, not its rank among the returned sources.
C9_CitationNumberIsPromptIndex ==
    (aPc = "done" /\ Len(aSearch) > 0) =>
        /\ \A k \in 1..Len(aResp.sources) :
             LET s == aResp.sources[k]
             IN /\ s.citationNumber \in 1..Len(aSources)
                /\ aSources[s.citationNumber].id = s.id
                /\ s.citationNumber \in CitedNumbersIn(aAnswer, Len(aSources))
        /\ {aResp.sources[k].citationNumber : k \in 1..Len(aResp.sources)} = CitedNumbersIn(aAnswer, Len(aSources))

\* the first search result was deleted before the fetch and only the second of
\* the two remaining sources is cited: its number is 2, its rank in the response 1
C9_Witness ==
    /\ aPc = "done"
    /\ Len(aSearch) = 3 /\ Len(aSources) = 2
    /\ aSources[1].id = aSearch[2].id
    /\ Len(aResp.sources) = 1
    /\ aResp.sources[1].citationNumber = 2

\* C10: when a Twitter or Reddit URL is summarized with the platform configured and
\* the platform fetch throws, the request does not end on that error: the generic
\* link extraction is invoked, and a result that is returned carries the social label.
C10_SocialFetchFailureFallsBack ==
    (uUrl \in {"twitter", "reddit"} /\ uPlatformThrew /\ uPc \in {"done", "failed"}) =>
        /\ nLink >= 1
        /\ uErr \notin {"tweet", "post"}
        /\ uPc = "done" => uContentType = detectContentType(uUrl)

\* the platform service of a social url is configured
PlatformConfigured(url) ==
    \/ url = "twitter" /\ twConfigured
    \/ url = "reddit" /\ rdConfigured

C12_WebsiteAssetRetriedAsArticle ==
    uAssetErr = "website" =>
        /\ uErr # "website"
        /\ uPc = "link" \/ nLink = 1
        /\ uPc = "failed" => uErr \in {"link", "llm"}
        /\ uPc = "done" => uContentType = "article" /\ nLink = 1

C12_Witness ==
    /\ uAssetErr = "website" /\ nDownload = 1
    /\ uPc = "done" /\ uContentType = "article" /\ nLink = 1

\* C13: when the direct-asset path fails for another reason than the website
\* condition, summarize fails with that error and the generic article path is not
\* invoked.
C13_OnlyWebsiteErrorFallsBack ==
    uAssetErr \notin {"none", "website"} =>
        /\ uPc = "failed" /\ uErr = uAssetErr
        /\ nLink = 0

\* C14: for a URL whose pathname has an extension other than .html, .htm, .php, .asp
\* or .aspx (in any case), classifyUrlAsAsset returns asset and issues no network call.
C14_AssetExtensionNeedsNoProbe ==
    (kPc # "idle" /\ kPath # "unparsable"
        /\ ToLowerCase(kPath) \notin {"", ".html", ".htm", ".php", ".asp", ".aspx"}) =>
            /\ kPc = "done" /\ kResult = "asset"
            /\ kCalls = <<>>
            /\ ~kRaised

C14_Witness ==
    kPath = ".PNG" /\ kPc = "done" /\ kResult = "asset" /\ kCalls = <<>>

\* a probe that was issued and ended in a network error, a timeout or a non-OK status
ProbeFailed(probe) == probe.issued /\ (probe.threw \/ ~probe.ok)

\* C15: for a URL without an asset-like extension no probe failure is raised to the
\* caller; a failed HEAD probe is followed by the ranged GET, a failed ranged GET gives
\* website, asset is returned only on a probe that succeeded, and when neither probe
\* concludes asset the result is website.
C15_ProbeFailureMeansWebsite ==
    (kPc # "idle" /\ kPath # "unparsable"
        /\ ToLowerCase(kPath) \in {"", ".html", ".htm", ".php", ".asp", ".aspx"}) =>
            /\ ~kRaised
            /\ ProbeFailed(kHead) => kPc = "range" \/ kRange.issued
            /\ ProbeFailed(kRange) => kResult = "website"
            /\ kResult = "asset" =>
                   \/ kHead.issued /\ ~ProbeFailed(kHead) /\ ~kRange.issued
                   \/ kRange.issued /\ ~ProbeFailed(kRange)
            /\ kPc = "done" => kResult \in {"asset", "website"}
            /\ (kPc = "done" /\ kResult # "asset") => kCalls = <<"HEAD", "GET">>

C15_Witness ==
    /\ kPath = ".html" /\ kPc = "done"
    /\ kHead.threw /\ kRange.issued /\ ~kRange.ok /\ ~kRange.threw /\ ~kRange.html
    /\ kResult = "website"

\* C16: every asset returned by loadAssetFromUrl or loadAssetFromPath has
\* sizeBytes <= maxBytes, sizeBytes being the number of bytes loaded, whatever the
\* announced size was.
C16_LoadedSizeWithinCap ==
    (lPc = "done" /\ lOut.status = "asset") =>
        /\ lOut.sizeBytes = lIn.actual
        /\ lOut.sizeBytes <= lMax

\* the media type the loader detects for its input
DetectedType == detectMediaType(lIn.sniffed, lIn.header, lIn.byExt)

\* the loader got as far as detecting the media type
ReachedDetection ==
    lPc = "done" /\ lOut.error \notin {"fetch", "fs", "status", "notFile", "tooLarge"}

\* every asset returned carries the detected type, which is no archive type and is
\* classified, and kind = classifyAssetKind(mediaType)
ReturnedAssetsAreClassified ==
    (lPc = "done" /\ lOut.status = "asset") =>
        /\ lOut.mediaType = DetectedType
        /\ lOut.mediaType \notin ARCHIVE_MEDIA_TYPES
        /\ lOut.kind \in {"image", "document"}
        /\ lOut.kind = classifyAssetKind(lOut.mediaType)

\* C17 as stated: no returned asset has an archive or unclassified media type, every
\* input with such a type fails with the unsupported-file-type error, and
\* kind = classifyAssetKind(mediaType).
C17_UnsupportedTypesAlwaysUnsupportedError ==
    /\ ReturnedAssetsAreClassified
    /\ (ReachedDetection
          /\ (DetectedType \in ARCHIVE_MEDIA_TYPES \/ classifyAssetKind(DetectedType) = "null")) =>
             lOut.status = "error" /\ lOut.error \in {"archive", "unsupported"}

\* C17: no returned asset has an archive or unclassified media type and
\* kind = classifyAssetKind(mediaType); an input with such a type fails, with the
\* unsupported-file-type error, or, in loadAssetFromUrl when the body starts like an
\* HTML page, with the looks-like-website error, which is tested first.
C17_UnsupportedTypesRejected ==
    /\ ReturnedAssetsAreClassified
    /\ (ReachedDetection
          /\ (DetectedType \in ARCHIVE_MEDIA_TYPES \/ classifyAssetKind(DetectedType) = "null")) =>
             /\ lOut.status = "error"
             /\ IF lFrom = "url" /\ lIn.html
                  THEN lOut.error = "website"
                  ELSE lOut.error \in {"archive", "unsupported"}

C17_Witness ==
    /\ lPc = "done" /\ lFrom = "url" /\ DetectedType = <<"application", "gzip">>
    /\ ~lIn.html /\ lOut.status = "error" /\ lOut.error = "archive"

\* C18: once enrichAsync has terminated, the item's enrichmentStatus is 'completed'
\* or 'failed', not 'pending', whichever step failed.
C18_TerminatedNeverPending ==
    ePc \in {"resolved", "rejected"} => eStatus \in {"completed", "failed"}

\* C19: capture has returned {status: 'captured', enrichment: 'pending'} by the time
\* enrichAsync awaits its first step, a failure of capture never comes from the
\* enrichment, and enrichAsync never rejects, also when the 'failed' update throws.
C19_EnrichmentDetached ==
    /\ ePc # "rejected"
    /\ ePc # "off" =>
          /\ cpPc = "returned"
          /\ cpResp = [status |-> "captured", enrichment |-> "pending"]
    /\ cpPc = "failed" => ePc = "off" /\ eStatus = "none"

C19_Witness ==
    /\ cpPc = "returned" /\ ePc = "resolved"
    /\ eFailedAt = "store" /\ eWrites = <<"completed">>

\* C20: for a model text without a JSON object or with one that does not parse,
\* enrich does not raise and returns title 'Untitled', description '' and tags [];
\* tags that are not an array are replaced by [].
C20_UnparseableGivesDefaults ==
    ePc \notin {"off", "tags", "model"} =>
        /\ ~enrich(eText).raised
        /\ eFailedAt = "model" => eText = NoText
        /\ (~eText.hasObject \/ ~eText.valid) =>
              /\ enrich(eText).title = "Untitled"
              /\ enrich(eText).description = ""
              /\ enrich(eText).tags = <<>>
        /\ eText.tags # "array" => enrich(eText).tags = <<>>
        /\ eStatus = "completed" =>
              /\ eMeta.tags = (IF eText.tags = "array" THEN <<"tag">> ELSE <<>>)
              /\ (~eText.hasObject \/ ~eText.valid) => eMeta.title = "Untitled"

C20_Witness ==
    /\ ePc = "embed" /\ eText.hasObject /\ ~eText.valid
    /\ eMeta = [title |-> "Untitled", description |-> "", tags |-> <<>>]

\* C21: every excerpt ask hands to the language model is at most the excerpt bound long,
\* whether or not a sentence boundary is found in the second half of the cut text
C21_ExcerptWithinBound ==
    tPc = "done" => Len(tOut) <= ExcerptMaxLength

\* what the code does guarantee: the bound plus the three characters of the marker
ExcerptWithinBoundPlusMarker ==
    tPc = "done" =>
        /\ Len(tOut) <= ExcerptMaxLength + 3
        /\ Len(tOut) > ExcerptMaxLength =>
              /\ Len(tContent) > ExcerptMaxLength
              /\ tOut = SubSeq(tContent, 1, ExcerptMaxLength) \o <<".", ".", ".">>

\* the source text of a supported document, as its parser yields it
DocSource == OrEmpty(dIn.parsed)

\* the text holds no line break, no two blanks in a row and no blank at its start
WhitespaceNormalized(text) ==
    /\ \A k \in 1..Len(text) : text[k] # "\n"
    /\ \A k \in 1..(Len(text) - 1) : ~(text[k] = " " /\ text[k + 1] = " ")
    /\ text # <<>> => text[1] # " "

\* C22: for a supported document the returned text is at most MAX_EXTRACTED_TEXT_CHARS
\* long, truncated is true exactly when the whitespace-normalized source is longer than
\* that, an untruncated text equals the normalized source and a truncated one is its
\* first MAX_EXTRACTED_TEXT_CHARS characters
C22_ExtractedTextBounded ==
    (dPc = "done" /\ dOut.status = "ok") =>
        /\ Len(dOut.text) <= MAX_EXTRACTED_TEXT_CHARS
        /\ dOut.truncated <=> Len(normalizeText(DocSource)) > MAX_EXTRACTED_TEXT_CHARS
        /\ ~dOut.truncated => dOut.text = normalizeText(DocSource)
        /\ dOut.truncated =>
              dOut.text = SubSeq(normalizeText(DocSource), 1, MAX_EXTRACTED_TEXT_CHARS)
        /\ WhitespaceNormalized(dOut.text)
        /\ ~dOut.truncated /\ dOut.text # <<>> => dOut.text[Len(dOut.text)] # " "

\* a PDF whose text shrinks under normalization and is still longer than the cap
C22_Witness ==
    /\ dPc = "done" /\ dOut.status = "ok"
    /\ dIn.mediaType = "application/pdf"
    /\ Len(normalizeText(DocSource)) < Len(DocSource)
    /\ Len(normalizeText(DocSource)) > MAX_EXTRACTED_TEXT_CHARS
    /\ dOut.truncated

\* s can be obtained from t by dropping elements
RECURSIVE IsSubsequence(_, _)
IsSubsequence(s, t) ==
    IF s = <<>> THEN TRUE
    ELSE IF t = <<>> THEN FALSE
    ELSE IF Head(s) = Head(t) THEN IsSubsequence(Tail(s), Tail(t))
    ELSE IsSubsequence(s, Tail(t))

\* what the mode's branch returned to search(), before the type filter
Unfiltered ==
    CASE sMode = "keyword" -> kwResults
      [] sMode = "semantic" -> semResults
      [] OTHER -> SliceTo(MergeInto(MergeInto(<<>>, SemanticOrEmpty), kwResults), sLimit)

\* C23: total is the number of returned results; with a non-empty type set every returned
\* result has a type of the set; the filter works on the merged and truncated list, so the
\* results are that list without the results of other types, in the same order
C23_TotalCountsFilteredResults ==
    sPc = "done" =>
        /\ sTotal = Len(sResults)
        /\ sTypes # {} => \A k \in 1..Len(sResults) : sResults[k].contentType \in sTypes
        /\ IsSubsequence(sResults, Unfiltered)
        /\ \A k \in 1..Len(Unfiltered) :
              (sTypes = {} \/ Unfiltered[k].contentType \in sTypes) =>
                  \E j \in 1..Len(sResults) : sResults[j] = Unfiltered[k]
        /\ Len(Unfiltered) <= sLimit

\* a hybrid search whose filter removes a result of the truncated list while a result of
\* the requested type was cut off by the limit: fewer than `limit` results are returned
C23_Witness ==
    /\ sPc = "done" /\ sMode = "hybrid" /\ sTypes # {}
    /\ Len(sResults) < Len(Unfiltered)
    /\ \E k \in 1..Len(kwResults) :
          /\ kwResults[k].contentType \in sTypes
          /\ \A j \in 1..Len(sResults) : sResults[j].id # kwResults[k].id
    /\ sTotal = Len(sResults) /\ sTotal < sLimit

\* C24: semantic search calls findByIds exactly once when the index returned at least one
\* candidate and not at all when it returned none; never once per candidate
C24_OneBatchedFetch ==
    /\ fetchCalls <= 1
    /\ semPc \in {"off", "embed", "similar"} => fetchCalls = 0
    /\ semPc = "done" => fetchCalls = (IF similarItems = <<>> THEN 0 ELSE 1)
    /\ semPc = "failed" => fetchCalls = (IF semErr = "fetch" THEN 1 ELSE 0)
    /\ semErr = "fetch" => similarItems # <<>>

\* three candidates were fetched with one call
C24_Witness ==
    /\ sPc = "done" /\ sMode = "semantic"
    /\ Len(similarItems) = 3 /\ Len(sResults) = 3
    /\ fetchCalls = 1

\* the fallback tiers one summarize() call has entered: the strategy of the content type,
\* plus the article strategy after a failed asset attempt
TiersEntered == IF uAssetErr # "none" /\ (uPc = "link" \/ nLink > 0) THEN 2 ELSE 1

\* C25: within one summarize call no external capability (tweet fetch, Reddit post fetch,
\* link-preview fetch, asset download, language model) is invoked more than once per
\* fallback tier
C25_EachCapabilityOncePerTier ==
    /\ nTweet <= 1
    /\ nPost <= 1
    /\ nLink <= 1
    /\ nDownload <= 1
    /\ nLlm <= TiersEntered

\* what holds of the capabilities other than the two platform fetches
OtherCapabilitiesOncePerTier ==
    /\ nLink <= 1
    /\ nDownload <= 1
    /\ nClassify <= 1
    /\ nLlm <= TiersEntered
    /\ nTweet <= 2 /\ nPost <= 2 /\ nComments <= 1

\* C26: classifyUrlAsAsset issues at most two network calls, HEAD first and then the ranged
\* GET; the GET is issued only when the HEAD probe did not conclude asset, and no probe is
\* repeated after it failed
C26_HeadThenRangeAtMostOnce ==
    /\ kCalls \in {<<>>, <<"HEAD">>, <<"HEAD", "GET">>}
    /\ Len(kCalls) = 2 => ~kHead.asset
    /\ kPc = "range" => kCalls = <<"HEAD">> /\ ~kHead.asset
    /\ (kPc = "done" /\ kCalls = <<"HEAD">>) => kHead.asset /\ kResult = "asset"
    /\ (kPc = "done" /\ kCalls = <<>>) => kRaised \/ isLikelyAssetPathname(kPath)
    /\ kPc = "done" => ~(kHead.issued /\ ~kHead.asset /\ ~kRange.issued)

\* both probes failed, each was issued once, and the URL counts as a website
C26_Witness ==
    /\ kPc = "done" /\ kCalls = <<"HEAD", "GET">>
    /\ ProbeFailed(kHead) /\ ProbeFailed(kRange)
    /\ kResult = "website"

\* the semantic branch is past its start and has not settled
SemanticInFlight == semPc \in {"embed", "similar", "fetch"}

\* C27: in hybrid mode both branches are started together and run concurrently, the merge
\* happens only after both have settled, and the merged list is the same function of the
\* two branches' results whichever branch settled first
C27_JoinBeforeMerge ==
    sMode = "hybrid" =>
        /\ sPc = "running" => kwPc # "off" /\ semPc # "off"
        /\ sPc \in {"running", "failed"} => sMerged = <<>> /\ sResults = <<>>
        /\ sPc = "done" =>
              /\ kwPc = "done" /\ semPc \in {"done", "failed"}
              /\ sFirst \in {"keyword", "semantic"}
              /\ sMerged = SliceTo(MergeInto(MergeInto(<<>>, SemanticOrEmpty), kwResults),
                                   sLimit)
        /\ (kwPc = "pending" /\ SemanticInFlight) => sFirst = "none" /\ sPc = "running"

\* the semantic branch settled while the keyword branch was still pending, and the merge
\* put the semantic results first all the same
C27_Witness ==
    /\ sMode = "hybrid" /\ sPc = "done" /\ sFirst = "semantic"
    /\ Len(semResults) >= 1 /\ Len(kwResults) >= 2
    /\ sMerged[1] = semResults[1]
    /\ kwResults[1].id # semResults[1].id

\* the other order of settling is reachable with the same shape of result
KeywordSettlesFirst ==
    /\ sMode = "hybrid" /\ sPc = "done" /\ sFirst = "keyword"
    /\ Len(semResults) >= 1 /\ Len(kwResults) >= 2
    /\ sMerged[1] = semResults[1]
    /\ kwResults[1].id # semResults[1].id

\* C28: the sources handed to the language model are the search results whose row the
\* batch fetch returned, in search-rank order whatever the order of the fetched rows; a
\* result whose row is gone is left out without an error
C28_SourcesKeepSearchOrder ==
    (aPc \in {"generate", "done"} /\ Len(aSearch) > 0) =>
        /\ IsSubsequence(IdsOf(aSources), IdsOf(aSearch))
        /\ Range(IdsOf(aSources)) = Range(IdsOf(aSearch)) \cap table
        /\ \A k \in 1..Len(aSources) : aSources[k].contentType = ItemType(aSources[k].id)
        /\ aFetchCalls = 1

\* the second of three search results was deleted before the fetch; the first and the
\* third are handed on in that order and the call completes
C28_Witness ==
    /\ aPc = "done"
    /\ Len(aSearch) = 3 /\ Len(aSources) = 2
    /\ aSearch[2].id \notin table
    /\ aSources[1].id = aSearch[1].id /\ aSources[2].id = aSearch[3].id

\* C29: one run of enrichAsync writes enrichmentStatus at most once: an item the run marked
\* 'completed' is not marked 'failed' afterwards by the same run, and 'completed' implies
\* that the embedding was stored
C29_StatusWrittenOnce ==
    ePc \in {"resolved", "rejected"} =>
        /\ Len(eWrites) <= 1
        /\ eWrites # <<"completed", "failed">>
        /\ eStatus = "completed" => eStored

\* what does hold: 'completed' is written at most once and before any 'failed', and a run
\* that stored the embedding ends with status 'completed'
StatusWritesOrdered ==
    /\ eWrites \in {<<>>, <<"completed">>, <<"failed">>, <<"completed", "failed">>}
    /\ (ePc \in {"resolved", "rejected"} /\ eStored) => eStatus = "completed" /\ eWrites = <<"completed">>

\* C30: in hybrid mode only the semantic branch's failure is absorbed: once the keyword
\* branch has failed the search can only fail, even when the semantic branch succeeded,
\* and it returns no partial (semantic-only) result; a failed hybrid search is always a
\* failed keyword branch
C30_KeywordFailureFailsSearch ==
    sMode = "hybrid" =>
        /\ kwPc = "failed" =>
              /\ sPc \in {"running", "failed"}
              /\ AwaitedCall = "rejected"
              /\ sMerged = <<>> /\ sResults = <<>> /\ sTotal = 0
        /\ sPc = "failed" => kwPc = "failed"

\* the semantic branch returned results, the keyword branch failed, the search has thrown
C30_Witness ==
    /\ sMode = "hybrid" /\ sPc = "failed"
    /\ kwPc = "failed" /\ semPc = "done" /\ Len(semResults) >= 1
    /\ sResults = <<>>

====
